---------------------------- MODULE Spec2Model ----------------------------
(***************************************************************************)
(* Model of the Gemini-CLI Telegram bot (src/app.py): the streaming run    *)
(* of one agent process (run_gemini_streaming with its two stream_reader   *)
(* threads, the update schedulers and the finalisation code), the Telegram *)
(* helpers it calls, and the prompt dispatch that starts such runs.        *)
(*                                                                         *)
(* Text is a sequence of characters; a character is a one-element token    *)
(* (a TLA+ string).  Time is counted in whole seconds.                     *)
(***************************************************************************)
EXTENDS Integers, Sequences, FiniteSets, TLC

(***************************************************************************)
(* Characters with a role in the code's regular expressions.               *)
(***************************************************************************)
ESC == "ESC"          \* \x1B
NL == "\n"
SP == " "
BSL == "\\"
BT == "BQ"           \* the backquote character
ELLIPSIS == "ELL"     \* the one character U+2026
BULLET == "BUL"       \* the one character U+2022
BLOCK == "BLK"        \* the one character U+258C

\* [@-Z\\-_]  (the characters of the model in 0x40-0x5A and 0x5C-0x5F)
AnsiSingle == {"_", BSL, "S"}
\* [0-?]
AnsiParam == {"0", "?"}
\* [ -/]
AnsiInter == {SP, "!", "#", "*", ".", "-"}
\* [@-~]
AnsiFinal == {"a", "b", "c", "d", "e", "f", "g", "h", "m", "x", "y", "z", "[", BSL, "_", BT, "S"}
\* \s
White == {SP, NL}
\* [.!?]
SentenceEnd == {".", "!", "?"}
\* every character of the model
AllChars == AnsiSingle \cup AnsiParam \cup AnsiInter \cup AnsiFinal \cup White
            \cup {ESC, ELLIPSIS, BULLET, BLOCK}

Min(a, b) == IF a < b THEN a ELSE b

\* s[i:] of Python for a 0-based offset i >= 0
Drop(s, i) == SubSeq(s, i + 1, Len(s))
\* s[:i] of Python for i >= 0
Take(s, i) == SubSeq(s, 1, Min(i, Len(s)))

\* s starts with p at 1-based position i
StartsAt(s, i, p) == i + Len(p) - 1 <= Len(s) /\ SubSeq(s, i, i + Len(p) - 1) = p

\* needle in haystack of Python
IsSubstr(needle, hay) == \E i \in 1..(Len(hay) + 1) : StartsAt(hay, i, needle)

\* the first position >= i where c does not hold of s[i] (Len(s)+1 when none)
RECURSIVE SkipSet(_, _, _)
SkipSet(s, i, set) == IF i <= Len(s) /\ s[i] \in set THEN SkipSet(s, i + 1, set) ELSE i

(***************************************************************************)
(* ansi_escape = \x1B(?:[@-Z\\-_]|\[[0-?]*[ -/]*[@-~]); AnsiEnd(s, i) is   *)
(* the position after the match that starts at i, or 0 when none starts    *)
(* there.  The three classes of the second alternative are disjoint, so    *)
(* the greedy match is the only one.                                       *)
(***************************************************************************)
AnsiEnd(s, i) ==
    IF ~(i < Len(s) /\ s[i] = ESC) THEN 0
    ELSE IF s[i + 1] \in AnsiSingle THEN i + 2
    ELSE IF s[i + 1] # "[" THEN 0
    ELSE LET j == SkipSet(s, SkipSet(s, i + 2, AnsiParam), AnsiInter)
         IN  IF j <= Len(s) /\ s[j] \in AnsiFinal THEN j + 1 ELSE 0

RECURSIVE AnsiSubFrom(_, _)
AnsiSubFrom(s, i) ==
    IF i > Len(s) THEN <<>>
    ELSE IF AnsiEnd(s, i) # 0 THEN AnsiSubFrom(s, AnsiEnd(s, i))
    ELSE <<s[i]>> \o AnsiSubFrom(s, i + 1)

\* ansi_escape.sub('', s)
AnsiSub(s) == AnsiSubFrom(s, 1)

(***************************************************************************)
(* re.split(r'(```[\s\S]*?```)', text): the parts at odd positions lie     *)
(* outside the fenced regions, the parts at even positions are the fenced  *)
(* regions.                                                                *)
(***************************************************************************)
Fence == <<BT, BT, BT>>

\* the first position >= i where p starts in s (0 when none)
RECURSIVE FindFrom(_, _, _)
FindFrom(s, i, p) ==
    IF i + Len(p) - 1 > Len(s) THEN 0
    ELSE IF StartsAt(s, i, p) THEN i
    ELSE FindFrom(s, i + 1, p)

\* the position after the fenced region that starts at i (0 when none does)
FenceEnd(s, i) ==
    IF StartsAt(s, i, Fence) /\ FindFrom(s, i + 3, Fence) # 0
    THEN FindFrom(s, i + 3, Fence) + 3
    ELSE 0

RECURSIVE SplitFencesFrom(_, _, _)
SplitFencesFrom(s, i, start) ==
    IF i > Len(s) THEN <<SubSeq(s, start, Len(s))>>
    ELSE IF FenceEnd(s, i) # 0
         THEN <<SubSeq(s, start, i - 1), SubSeq(s, i, FenceEnd(s, i) - 1)>>
              \o SplitFencesFrom(s, FenceEnd(s, i), FenceEnd(s, i))
    ELSE SplitFencesFrom(s, i + 1, start)

SplitFences(s) == SplitFencesFrom(s, 1, 1)

\* "".join(parts)
RECURSIVE Join(_)
Join(parts) == IF parts = <<>> THEN <<>> ELSE Head(parts) \o Join(Tail(parts))

\* re.sub(r'(?<=[.!?])\s+', '\n', part)
RECURSIVE BreakPartFrom(_, _)
BreakPartFrom(p, i) ==
    IF i > Len(p) THEN <<>>
    ELSE IF i > 1 /\ p[i - 1] \in SentenceEnd /\ p[i] \in White
         THEN <<NL>> \o BreakPartFrom(p, SkipSet(p, i, White))
    ELSE <<p[i]>> \o BreakPartFrom(p, i + 1)

\* a variant that breaks the sentences of the whole text, fences included
break_sentences_everywhere(text) == BreakPartFrom(text, 1)

break_sentences_into_lines(text) ==
    IF text = <<>> THEN <<>>
    ELSE LET parts == SplitFences(text)
         IN  Join([k \in 1..Len(parts) |->
                     IF k % 2 = 1 THEN BreakPartFrom(parts[k], 1) ELSE parts[k]])

\* part.replace('\n', '\n\n')
RECURSIVE DoubleNewlines(_)
DoubleNewlines(p) ==
    IF p = <<>> THEN <<>>
    ELSE (IF Head(p) = NL THEN <<NL, NL>> ELSE <<Head(p)>>) \o DoubleNewlines(Tail(p))

\* re.sub(r'\n{3,}', '\n\n', part)
RECURSIVE CollapseNewlinesFrom(_, _)
CollapseNewlinesFrom(p, i) ==
    IF i > Len(p) THEN <<>>
    ELSE IF p[i] = NL
         THEN (IF SkipSet(p, i, {NL}) - i >= 3 THEN <<NL, NL>>
               ELSE SubSeq(p, i, SkipSet(p, i, {NL}) - 1))
              \o CollapseNewlinesFrom(p, SkipSet(p, i, {NL}))
    ELSE <<p[i]>> \o CollapseNewlinesFrom(p, i + 1)

format_for_telegram_paragraphs(text) ==
    IF text = <<>> THEN <<>>
    ELSE LET parts == SplitFences(text)
         IN  Join([k \in 1..Len(parts) |->
                     IF k % 2 = 1
                     THEN CollapseNewlinesFrom(DoubleNewlines(parts[k]), 1)
                     ELSE parts[k]])

(***************************************************************************)
(* format_for_telegram: re.split(r'(```[\s\S]*?```|`[^`]*?`)', text) and   *)
(* the substitutions made in the parts outside code.                       *)
(***************************************************************************)
\* the position after the code span (fenced or inline) that starts at i
CodeEnd(s, i) ==
    IF FenceEnd(s, i) # 0 THEN FenceEnd(s, i)
    ELSE IF i <= Len(s) /\ s[i] = BT /\ FindFrom(s, i + 1, <<BT>>) # 0
         THEN FindFrom(s, i + 1, <<BT>>) + 1
    ELSE 0

RECURSIVE SplitCodeFrom(_, _, _)
SplitCodeFrom(s, i, start) ==
    IF i > Len(s) THEN <<SubSeq(s, start, Len(s))>>
    ELSE IF CodeEnd(s, i) # 0
         THEN <<SubSeq(s, start, i - 1), SubSeq(s, i, CodeEnd(s, i) - 1)>>
              \o SplitCodeFrom(s, CodeEnd(s, i), CodeEnd(s, i))
    ELSE SplitCodeFrom(s, i + 1, start)

\* the closing ** of the lazy (.*?) that starts at j: no newline in between
RECURSIVE BoldClose(_, _)
BoldClose(p, j) ==
    IF j + 1 > Len(p) THEN 0
    ELSE IF StartsAt(p, j, <<"*", "*">>) THEN j
    ELSE IF p[j] = NL THEN 0
    ELSE BoldClose(p, j + 1)

\* re.sub(r'\*\*(.*?)\*\*', r'*\1*', part)
RECURSIVE BoldFrom(_, _)
BoldFrom(p, i) ==
    IF i > Len(p) THEN <<>>
    ELSE IF StartsAt(p, i, <<"*", "*">>) /\ BoldClose(p, i + 2) # 0
         THEN <<"*">> \o SubSeq(p, i + 2, BoldClose(p, i + 2) - 1) \o <<"*">>
              \o BoldFrom(p, BoldClose(p, i + 2) + 2)
    ELSE <<p[i]>> \o BoldFrom(p, i + 1)

\* part.replace('_', r'\_')
RECURSIVE EscapeUnderscores(_)
EscapeUnderscores(p) ==
    IF p = <<>> THEN <<>>
    ELSE (IF Head(p) = "_" THEN <<BSL, "_">> ELSE <<Head(p)>>) \o EscapeUnderscores(Tail(p))

\* ^ under re.MULTILINE
LineStart(p, i) == i = 1 \/ p[i - 1] = NL

\* the position after a match of ^\s*\*\s+ that starts at i (0 when none does)
BulletEnd(p, i) ==
    LET k == SkipSet(p, i, White)
    IN  IF LineStart(p, i) /\ k < Len(p) /\ p[k] = "*" /\ p[k + 1] \in White
        THEN SkipSet(p, k + 1, White)
        ELSE 0

\* re.sub(r'^\s*\*\s+', BULLET + ' ', part, flags=re.MULTILINE)
RECURSIVE BulletsFrom(_, _)
BulletsFrom(p, i) ==
    IF i > Len(p) THEN <<>>
    ELSE IF BulletEnd(p, i) # 0 THEN <<BULLET, SP>> \o BulletsFrom(p, BulletEnd(p, i))
    ELSE <<p[i]>> \o BulletsFrom(p, i + 1)

\* re.sub(r'^<marks> (.*?)$', r'*\1*', part, flags=re.MULTILINE)
RECURSIVE HeaderFrom(_, _, _)
HeaderFrom(p, i, marks) ==
    IF i > Len(p) THEN <<>>
    ELSE IF LineStart(p, i) /\ StartsAt(p, i, marks \o <<SP>>)
         THEN LET e == SkipSet(p, i + Len(marks) + 1, AllChars \ {NL})
              IN  <<"*">> \o SubSeq(p, i + Len(marks) + 1, e - 1) \o <<"*">>
                  \o HeaderFrom(p, e, marks)
    ELSE <<p[i]>> \o HeaderFrom(p, i + 1, marks)

FormatPart(part) ==
    LET bold == BoldFrom(part, 1)
        esc == EscapeUnderscores(bold)
        bul == BulletsFrom(esc, 1)
        h1 == HeaderFrom(bul, 1, <<"#">>)
        h2 == HeaderFrom(h1, 1, <<"#", "#">>)
    IN  HeaderFrom(h2, 1, <<"#", "#", "#">>)

format_for_telegram(text) ==
    LET parts == SplitCodeFrom(text, 1, 1)
    IN  Join([k \in 1..Len(parts) |->
                IF k % 2 = 1 THEN FormatPart(parts[k]) ELSE parts[k]])

\* str.strip()
RECURSIVE StripLeft(_)
StripLeft(s) == IF s # <<>> /\ Head(s) \in White THEN StripLeft(Tail(s)) ELSE s

RECURSIVE StripRight(_)
StripRight(s) ==
    IF s # <<>> /\ s[Len(s)] \in White THEN StripRight(SubSeq(s, 1, Len(s) - 1)) ELSE s

PyStrip(s) == StripRight(StripLeft(s))

\* [text[i:i + n] for i in range(0, len(text), n)]
RECURSIVE Segments(_, _)
Segments(text, n) ==
    IF text = <<>> THEN <<>> ELSE <<Take(text, n)>> \o Segments(Drop(text, n), n)

(***************************************************************************)
(* Configuration (lines 83-88 of src/app.py read it from the environment;  *)
(* the values here are a small configuration) and the constants of the     *)
(* code, the sizes among them scaled down with the configuration.          *)
(***************************************************************************)
STREAM_UPDATE_INTERVAL == 2
STREAM_MIN_CHARS == 2
STREAM_MAX_CHARS == 3
STREAM_TAIL_LIMIT == 3
STREAM_CURSOR == <<SP, BLOCK>>
\* stream.read(512): the size of one read
READ_SIZE == 2
\* queue = Queue(): the maxsize of the queue, 0 for a queue without a limit
QUEUE_MAXSIZE == 0
\* max_len = 4096: the size of one final segment
max_len == 8
\* time.sleep(min(retry_after, 5))
SLEEP_CAP == 5
\* prompt_counter % 5 == 0: a reminder every fifth prompt
REMINDER_EVERY == 5
\* the retry_after values a 429 response carries
RetryAfters == {3, 10}

\* "_Gemini is thinking..._", "_Gemini CLI returned an empty response._" and
\* "--- STDERR ---", each abbreviated to three characters
Thinking == <<"_", "g", "_">>
EmptyResponse == <<"_", "e", "_">>
StderrHeader == <<"-", "S", "-">>

(***************************************************************************)
(* Bounds of the model.                                                    *)
(***************************************************************************)
\* characters the agent writes to stdout, to stderr
MaxOut == 4
MaxErr == 1
\* seconds on the clock
MaxTime == 7

\* what the agent writes: a prefix of one of these
StdoutScripts == {<<"a", "b", "c", "d", "e", "f", "g", "h">>}
StderrScript == <<"x", "y", "z", "x", "y", "z">>
\* outputs with control sequences in them: one that a chunk holds whole,
\* one that lies across two chunks
AnsiScripts == {<<ESC, "S", "a", "b", ESC, "S", "c", "d">>,
                <<"a", ESC, "[", "m", "b", ESC, "[", "m">>}

Labels == {"stdout", "stderr"}

\* the chats updates come from: the authorized one and another
AUTHORIZED_USER_ID == "owner"
Chats == {AUTHORIZED_USER_ID, "stranger"}
\* updates main handles in one behaviour
MaxUpdates == 3
None == 0
\* no agent command built yet
NoCommand == [probe |-> "unbuilt", resume |-> FALSE]

VARIABLES
    stream_mode,       \* STREAM_MODE as run_gemini_streaming uses it
    pc,                \* where the streaming thread is
    force_flush,       \* the force_flush argument of the running maybe_update_block
    message_id,        \* the message the run edits (None before the placeholder)
    proc,              \* the agent process: "none", "running", "exited"
    full_output, stdout_clean, block_buffer, stderr_output,
    last_update_time, last_sent_text, update_count,
    queue,             \* Queue(): the (label, chunk) pairs, eof for the chunk None
    stdout_done, stderr_done,
    reader,            \* each stream_reader thread: "idle", "reading", "drained", "done"
    read_pos,          \* characters each reader has read
    script,            \* what the agent writes to stdout
    clock,             \* time.time()
    now,               \* the now of the current loop iteration
    chat,              \* the messages of the chat, by message id
    conversation_log,  \* project_conversation.log: the entries appended
    gemini_md,         \* GEMINI.md: the entries appended
    parts,             \* the segments of the final text still to deliver
    \* history, for the properties
    calls,             \* the transport calls of the latest step of the thread
    delivery,          \* the transport calls of the finalisation so far
    appends,           \* append attempts: to the log, to GEMINI.md, and the IOErrors logged
    dropped,           \* stdout text of the failed pushes since the last successful one
    rate_limit,        \* the latest 429 response: when, and its retry_after
    transport,         \* "any": a call may fail; "reliable": every call succeeds
    \* the dispatch of prompts
    project_context,   \* whether state["contexts"] holds a project for the chat
    prompt_counter,    \* state["prompt_counters"] of the project
    notices,           \* the notices handle_gemini_prompt sent to the chat
    runs,              \* the threads handle_gemini_prompt started, each with its state
    force_new_session, \* whether state["force_new_session"] holds the chat
    command,           \* the agent command handle_gemini_prompt built last
    \* the project directory
    files,             \* the names that are files of the project directory
    file_sent,         \* the names send_file_with_content was called with
    \* the dispatch loop of main
    main_loop,         \* "polling", or how the loop ended: "interrupted", "returned"
    contexts,          \* the chats state["contexts"] holds a project for
    awaiting_input,    \* state["awaiting_input"] of each chat ("none" when absent)
    context_workflows, \* the chats with an entry in state["context_workflows"]
    effects,           \* what the handlers have done, each with the chat it was done for
    last_update_id,    \* state["last_update_id"]
    logged,            \* the kinds of error main has logged
    update,            \* the update the for loop of main handled last
    \* the polling of getUpdates
    updates,           \* the ids of the updates that have reached the Bot API server
    batch,             \* the ids of the getUpdates result the for loop has still to handle
    handled            \* the updates whose handler was entered, in order, and how it ended

streamVars == <<stream_mode, pc, force_flush, message_id, proc, full_output, stdout_clean,
          block_buffer, stderr_output, last_update_time, last_sent_text, update_count,
          queue, stdout_done, stderr_done, reader, read_pos, script, clock, now, chat,
          conversation_log, gemini_md, parts, calls, delivery, appends, dropped,
          rate_limit, transport>>
sessionVars == <<force_new_session, command>>
dispatchVars == <<project_context, prompt_counter, notices, runs, sessionVars>>
projectVars == <<files, file_sent>>
pollVars == <<updates, batch, handled>>
mainVars == <<main_loop, contexts, awaiting_input, context_workflows, effects,
             last_update_id, logged, update, pollVars>>
idleVars == <<dispatchVars, projectVars, mainVars>>
vars == <<streamVars, dispatchVars, projectVars, mainVars>>

runVars == <<full_output, stdout_clean, block_buffer, stderr_output, stdout_done, stderr_done>>
sentVars == <<last_update_time, last_sent_text, update_count>>
readerVars == <<queue, reader, read_pos>>
fileVars == <<conversation_log, gemini_md, appends>>
pushVars == <<dropped>>
limitVars == <<rate_limit, transport>>

(***************************************************************************)
(* The Telegram Bot API as the helpers see it.  A response is the HTTP     *)
(* status (0: the request raised RequestException), the "ok" field, whether*)
(* the description is "message is not modified", and retry_after.          *)
(***************************************************************************)
Response(st, ok, nm, ra) == [status |-> st, ok |-> ok, not_modified |-> nm, retry_after |-> ra]

\* the answers left of a set by a transport on which every call succeeds
Answers(resps) ==
    IF transport = "reliable" THEN {r \in resps : r.status = 200 /\ r.ok} ELSE resps

\* what editMessageText may answer for message mid and text; status 0 is a
\* request that raised (no answer arrived), with ok when the edit was made
\* nevertheless and only the answer was lost
EditResponses(ch, mid, text, t) ==
    Answers(
    {Response(200, TRUE, FALSE, 0), Response(200, FALSE, FALSE, 0),
     Response(400, FALSE, FALSE, 0), Response(0, FALSE, FALSE, 0),
     Response(0, TRUE, FALSE, 0)}
    \cup {Response(st, FALSE, TRUE, 0) : st \in IF ch[mid] = text THEN {200, 400} ELSE {}}
    \cup {Response(429, FALSE, FALSE, r) : r \in {q \in RetryAfters : t + Min(q, SLEEP_CAP) <= MaxTime}})

\* what sendMessage may answer
SendResponses ==
    Answers({Response(200, TRUE, FALSE, 0), Response(200, FALSE, FALSE, 0),
             Response(400, FALSE, FALSE, 0), Response(0, FALSE, FALSE, 0)})

\* a variant that returns at once on a 429 response
EditSleepNone(resp) == 0

\* the seconds edit_message_text sleeps on the response
EditSleep(resp) == IF resp.status = 429 THEN Min(resp.retry_after, SLEEP_CAP) ELSE 0

\* what edit_message_text returns on the response
EditReturns(resp) ==
    IF resp.status = 0 THEN FALSE
    ELSE IF resp.status = 429 THEN FALSE
    ELSE IF resp.status # 200 THEN FALSE
    ELSE IF resp.ok THEN TRUE
    ELSE resp.not_modified

\* whether the chat took the message (send) or the new text (edit)
Accepted(resp) == resp.ok /\ resp.status \in {0, 200}

ChatAfterEdit(ch, mid, text, resp) == IF Accepted(resp) THEN [ch EXCEPT ![mid] = text] ELSE ch

ChatAfterSend(ch, text, resp) == IF Accepted(resp) THEN Append(ch, text) ELSE ch

\* Variant of SentId: an id is returned whether or not the chat took the message.
SentIdAlways(ch, resp) == Len(ch) + 1

\* the message id send_message_raw and send_message_with_id return
SentId(ch, resp) == IF Accepted(resp) THEN Len(ch) + 1 ELSE None

\* the record of one transport call: what was sent and whether it succeeded
\* (what the helper returned; for a send, whether the chat took it)
Call(kind, mid, text, ok) == [kind |-> kind, id |-> mid, text |-> text, ok |-> ok]

\* the record of one edit of the scheduler: also whether the answer said
\* "message is not modified", the stdout text it carried,
\* the failed pushes since the last successful one, when the request was
\* made and the latest 429 response before it
PushCall(kind, mid, text, resp, carried, before, at, limit) ==
    [kind |-> kind, id |-> mid, text |-> text, ok |-> EditReturns(resp),
     not_modified |-> resp.not_modified, carried |-> carried,
     dropped |-> before, at |-> at, limit |-> limit]
\* queue.put blocks while a queue with a maxsize is full
QueueHasRoom == QUEUE_MAXSIZE <= 0 \/ Len(queue) < QUEUE_MAXSIZE

\* Variant of Item: the reader puts every chunk on the queue as stdout.
ItemAsStdout(label, chunk, eof) == [label |-> "stdout", chunk |-> chunk, eof |-> eof]

(***************************************************************************)
(* The agent process and the two stream_reader threads.                    *)
(***************************************************************************)
Item(label, chunk, eof) == [label |-> label, chunk |-> chunk, eof |-> eof]

Written(label) == IF label = "stdout" THEN script ELSE StderrScript
MaxWritten(label) == IF label = "stdout" THEN MaxOut ELSE MaxErr

\* process.poll() is not None from now on
ProcessExit ==
    /\ proc = "running"
    /\ proc' = "exited"
    /\ UNCHANGED <<stream_mode, pc, force_flush, message_id, runVars, sentVars, readerVars,
                   script, clock, now, chat, fileVars, parts, calls, delivery, pushVars,
                   limitVars>>

\* Variant of ReadChunk: the reader puts its chunk at the head of the queue.
ReadChunkAtHead(label) ==
    /\ reader[label] = "reading"
    /\ QueueHasRoom
    /\ \E k \in 1..READ_SIZE :
          /\ read_pos[label] + k <= MaxWritten(label)
          /\ queue' = <<Item(label,
                         SubSeq(Written(label), read_pos[label] + 1, read_pos[label] + k), FALSE)>>
                      \o queue
          /\ read_pos' = [read_pos EXCEPT ![label] = @ + k]
          /\ reader' = [reader EXCEPT ![label] = IF k < READ_SIZE THEN "drained" ELSE "reading"]
    /\ UNCHANGED <<stream_mode, pc, force_flush, message_id, proc, runVars, sentVars, script,
                   clock, now, chat, fileVars, parts, calls, delivery, pushVars, limitVars>>

\* stream.read(512) returns k characters (fewer than 512 only at the end of
\* the stream) and the reader puts them on the queue
ReadChunk(label) ==
    /\ reader[label] = "reading"
    /\ QueueHasRoom
    /\ \E k \in 1..READ_SIZE :
          /\ read_pos[label] + k <= MaxWritten(label)
          /\ queue' = Append(queue, Item(label,
                         SubSeq(Written(label), read_pos[label] + 1, read_pos[label] + k), FALSE))
          /\ read_pos' = [read_pos EXCEPT ![label] = @ + k]
          /\ reader' = [reader EXCEPT ![label] = IF k < READ_SIZE THEN "drained" ELSE "reading"]
    /\ UNCHANGED <<stream_mode, pc, force_flush, message_id, proc, runVars, sentVars, script,
                   clock, now, chat, fileVars, parts, calls, delivery, pushVars, limitVars>>

\* stream.read(512) returns '': queue.put((label, None)) and the thread ends
PutEOF(label) ==
    /\ reader[label] \in {"reading", "drained"}
    /\ QueueHasRoom
    /\ queue' = Append(queue, Item(label, <<>>, TRUE))
    /\ reader' = [reader EXCEPT ![label] = "done"]
    /\ UNCHANGED <<stream_mode, pc, force_flush, message_id, proc, runVars, sentVars, read_pos,
                   script, clock, now, chat, fileVars, parts, calls, delivery, pushVars,
                   limitVars>>

\* a second passes while the thread waits in queue.get(timeout=0.1) on the
\* empty queue; once STREAM_UPDATE_INTERVAL has elapsed since the last push
\* the scheduler reads nothing more from the clock
Tick ==
    /\ pc = "get"
    /\ queue = <<>>
    /\ clock < MaxTime
    /\ clock - last_update_time < STREAM_UPDATE_INTERVAL
    /\ clock' = clock + 1
    /\ UNCHANGED <<stream_mode, pc, force_flush, message_id, proc, runVars, sentVars, readerVars,
                   script, now, chat, fileVars, parts, calls, delivery, pushVars, limitVars>>

(***************************************************************************)
(* run_gemini_streaming: the placeholder, the process and the readers.     *)
(***************************************************************************)
StartRun ==
    /\ pc = "start"
    /\ \E resp \in SendResponses :
          LET text == format_for_telegram(Thinking)
              id == SentId(chat, resp)
          IN  /\ chat' = ChatAfterSend(chat, text, resp)
              /\ calls' = <<Call("placeholder", None, text, Accepted(resp))>>
              /\ message_id' = id
              /\ IF id = None
                 THEN /\ pc' = "abandoned"
                      /\ UNCHANGED <<proc, reader, last_update_time>>
                 ELSE /\ pc' = "get"
                      /\ proc' = "running"
                      /\ reader' = [l \in Labels |-> "reading"]
                      /\ last_update_time' = clock
    /\ UNCHANGED <<stream_mode, force_flush, runVars, last_sent_text, update_count, queue,
                   read_pos, script, clock, now, fileVars, parts, delivery, pushVars, limitVars>>

(***************************************************************************)
(* The consumer loop: queue.get(timeout=0.1) and the accumulation.         *)
(***************************************************************************)
LoopGet ==
    /\ pc = "get"
    /\ IF queue = <<>>
       THEN UNCHANGED <<queue, runVars>>
       ELSE LET item == Head(queue)
                clean_chunk == AnsiSub(item.chunk)
            IN  /\ queue' = Tail(queue)
                /\ stdout_done' = (stdout_done \/ (item.label = "stdout" /\ item.eof))
                /\ stderr_done' = (stderr_done \/ (item.label = "stderr" /\ item.eof))
                /\ IF item.label = "stdout" /\ ~item.eof
                   THEN /\ full_output' = full_output \o item.chunk
                        /\ stdout_clean' = stdout_clean \o clean_chunk
                        /\ block_buffer' = block_buffer \o clean_chunk
                   ELSE UNCHANGED <<full_output, stdout_clean, block_buffer>>
                /\ stderr_output' = IF item.label = "stderr" /\ ~item.eof
                                    THEN stderr_output \o item.chunk ELSE stderr_output
    /\ now' = clock
    /\ force_flush' = FALSE
    /\ pc' = "update"
    /\ calls' = <<>>
    /\ UNCHANGED <<stream_mode, message_id, proc, sentVars, reader, read_pos, script, clock,
                   chat, fileVars, parts, delivery, pushVars, limitVars>>

(***************************************************************************)
(* One request of edit_message_text made at the current time: the chat,    *)
(* the sleep on a 429 response, and the history of requests and pushes.    *)
(***************************************************************************)
NoLimit == [at |-> 0 - 1, retry_after |-> 0]

EditRequest(text, resp) ==
    /\ chat' = ChatAfterEdit(chat, message_id, text, resp)
    /\ clock' = clock + EditSleep(resp)
    /\ rate_limit' = IF resp.status = 429
                     THEN [at |-> clock, retry_after |-> resp.retry_after]
                     ELSE rate_limit
    /\ UNCHANGED transport
\* Variant of Push: the text is recorded as pushed whatever the edit returned.
PushRecordedAlways(text, carried, resp) ==
    /\ EditRequest(text, resp)
    /\ last_sent_text' = text
    /\ last_update_time' = now
    /\ update_count' = update_count + 1
    /\ dropped' = IF EditReturns(resp) THEN {} ELSE dropped \cup {carried}

\* an edit of the scheduler that carried the stdout text `carried`:
\* on success the three nonlocal variables are set
Push(text, carried, resp) ==
    /\ EditRequest(text, resp)
    /\ IF EditReturns(resp)
       THEN /\ last_sent_text' = text
            /\ last_update_time' = now
            /\ update_count' = update_count + 1
            /\ dropped' = {}
       ELSE /\ UNCHANGED sentVars
            /\ dropped' = dropped \cup {carried}

NoRequest == UNCHANGED <<chat, clock, sentVars, pushVars, limitVars>>

\* what process.poll() may tell at the end of a step that began with the
\* process in state p: a running process may have ended meanwhile
Polls(p) == IF p = "running" THEN {"running", "exited"} ELSE {p}

\* a variant that breaks on the two EOFs alone
LoopExitsOnEOF(poll) == stdout_done /\ stderr_done

\* if stdout_done and stderr_done and process.poll() is not None: break
LoopExits(poll) == stdout_done /\ stderr_done /\ poll = "exited"

\* the end of one iteration of the loop (now is local to the iteration)
LoopCheck ==
    \E poll \in Polls(proc) :
       /\ proc' = poll
       /\ pc' = IF LoopExits(poll) THEN "merge" ELSE "get"
       /\ now' = 0

\* visible[-STREAM_TAIL_LIMIT:]
TailWindow(clean) == SubSeq(clean, Len(clean) - STREAM_TAIL_LIMIT + 1, Len(clean))

\* a variant that shows the whole accumulated text
VisibleTailWhole(clean) == clean

\* the text maybe_update_partial shows before the cursor
VisibleTail(clean) ==
    IF Len(clean) > STREAM_TAIL_LIMIT THEN <<ELLIPSIS>> \o TailWindow(clean) ELSE clean

\* the stdout text in it
CarriedTail(clean) == IF Len(clean) > STREAM_TAIL_LIMIT THEN TailWindow(clean) ELSE clean
\* Variant of IntervalElapsed: the interval is not waited for.
IntervalIgnored == TRUE

\* now - last_update_time >= STREAM_UPDATE_INTERVAL
IntervalElapsed == now - last_update_time >= STREAM_UPDATE_INTERVAL

maybe_update_partial ==
    /\ pc = "update"
    /\ stream_mode = "partial"
    /\ LET text == VisibleTail(stdout_clean) \o STREAM_CURSOR
       IN  IF stdout_clean = <<>> \/ ~IntervalElapsed \/ text = last_sent_text
           THEN NoRequest /\ calls' = <<>>
           ELSE \E resp \in EditResponses(chat, message_id, text, clock) :
                   /\ Push(text, CarriedTail(stdout_clean), resp)
                   /\ calls' = <<PushCall("partial", message_id, text, resp,
                                               CarriedTail(stdout_clean), dropped, clock, rate_limit)>>
    /\ LoopCheck
    /\ UNCHANGED <<stream_mode, force_flush, message_id, runVars, readerVars, script,
                   fileVars, parts, delivery>>

\* Variant of NoUpdate: the off mode pushes the tail as the partial mode does.
NoUpdateAsPartial ==
    /\ pc = "update"
    /\ stream_mode = "off"
    /\ LET text == VisibleTail(stdout_clean) \o STREAM_CURSOR
       IN  IF stdout_clean = <<>> \/ ~IntervalElapsed \/ text = last_sent_text
           THEN NoRequest /\ calls' = <<>>
           ELSE \E resp \in EditResponses(chat, message_id, text, clock) :
                   /\ Push(text, CarriedTail(stdout_clean), resp)
                   /\ calls' = <<PushCall("partial", message_id, text, resp,
                                               CarriedTail(stdout_clean), dropped, clock, rate_limit)>>
    /\ LoopCheck
    /\ UNCHANGED <<stream_mode, force_flush, message_id, runVars, readerVars, script,
                   fileVars, parts, delivery>>

\* the off mode pushes nothing
NoUpdate ==
    /\ pc = "update"
    /\ stream_mode = "off"
    /\ LoopCheck
    /\ calls' = <<>>
    /\ UNCHANGED <<stream_mode, force_flush, message_id, runVars, sentVars, readerVars,
                   script, clock, chat, fileVars, parts, delivery, pushVars, limitVars>>

\* Variant of maybe_update_block_flush: a block whose edit failed stays in the buffer.
maybe_update_block_flush_retry ==
    /\ pc = "update"
    /\ stream_mode = "block"
    /\ Len(block_buffer) >= STREAM_MAX_CHARS
    /\ LET chunk == Take(block_buffer, STREAM_MAX_CHARS)
           rest == Drop(block_buffer, STREAM_MAX_CHARS)
       IN  /\ \E resp \in EditResponses(chat, message_id, chunk, clock) :
              \E poll \in Polls(proc) :
                 /\ clock' = clock + EditSleep(resp)
                 /\ rate_limit' = IF resp.status = 429
                                  THEN [at |-> clock, retry_after |-> resp.retry_after]
                                  ELSE rate_limit
                 /\ UNCHANGED transport
                 /\ block_buffer' = IF EditReturns(resp) THEN rest ELSE block_buffer
                 /\ IF EditReturns(resp)
                    THEN /\ last_sent_text' = chunk
                         /\ last_update_time' = now
                         /\ update_count' = update_count + 1
                         /\ dropped' = {}
                    ELSE /\ UNCHANGED sentVars
                         /\ dropped' = dropped \cup {chunk}
                 /\ proc' = poll
                 /\ IF poll = "running" \/ rest # <<>>
                    THEN \E sent \in SendResponses :
                            LET edited == ChatAfterEdit(chat, message_id, chunk, resp)
                                id == SentId(edited, sent)
                            IN  /\ chat' = ChatAfterSend(edited, <<ELLIPSIS>>, sent)
                                /\ message_id' = IF id # None THEN id ELSE message_id
                                /\ calls' = <<PushCall("flush", message_id, chunk, resp,
                                                       chunk, dropped, clock, rate_limit),
                                              Call("continuation", None, <<ELLIPSIS>>, Accepted(sent))>>
                    ELSE /\ chat' = ChatAfterEdit(chat, message_id, chunk, resp)
                         /\ calls' = <<PushCall("flush", message_id, chunk, resp,
                                                  chunk, dropped, clock, rate_limit)>>
                         /\ UNCHANGED message_id
    /\ pc' = "update"
    /\ delivery' = IF force_flush THEN delivery \o calls' ELSE delivery
    /\ UNCHANGED <<stream_mode, force_flush, full_output, stdout_clean, stderr_output,
                   stdout_done, stderr_done, readerVars, script, now, fileVars, parts>>

\* one iteration of "while len(block_buffer) >= STREAM_MAX_CHARS"; the
\* process may end while the edit is under way, before process.poll()
maybe_update_block_flush ==
    /\ pc = "update"
    /\ stream_mode = "block"
    /\ Len(block_buffer) >= STREAM_MAX_CHARS
    /\ LET chunk == Take(block_buffer, STREAM_MAX_CHARS)
           rest == Drop(block_buffer, STREAM_MAX_CHARS)
       IN  /\ block_buffer' = rest
           /\ \E resp \in EditResponses(chat, message_id, chunk, clock) :
              \E poll \in Polls(proc) :
                 /\ clock' = clock + EditSleep(resp)
                 /\ rate_limit' = IF resp.status = 429
                                  THEN [at |-> clock, retry_after |-> resp.retry_after]
                                  ELSE rate_limit
                 /\ UNCHANGED transport
                 /\ IF EditReturns(resp)
                    THEN /\ last_sent_text' = chunk
                         /\ last_update_time' = now
                         /\ update_count' = update_count + 1
                         /\ dropped' = {}
                    ELSE /\ UNCHANGED sentVars
                         /\ dropped' = dropped \cup {chunk}
                 /\ proc' = poll
                 /\ IF poll = "running" \/ rest # <<>>
                    THEN \E sent \in SendResponses :
                            LET edited == ChatAfterEdit(chat, message_id, chunk, resp)
                                id == SentId(edited, sent)
                            IN  /\ chat' = ChatAfterSend(edited, <<ELLIPSIS>>, sent)
                                /\ message_id' = IF id # None THEN id ELSE message_id
                                /\ calls' = <<PushCall("flush", message_id, chunk, resp,
                                                       chunk, dropped, clock, rate_limit),
                                              Call("continuation", None, <<ELLIPSIS>>, Accepted(sent))>>
                    ELSE /\ chat' = ChatAfterEdit(chat, message_id, chunk, resp)
                         /\ calls' = <<PushCall("flush", message_id, chunk, resp,
                                                  chunk, dropped, clock, rate_limit)>>
                         /\ UNCHANGED message_id
    /\ pc' = "update"
    /\ delivery' = IF force_flush THEN delivery \o calls' ELSE delivery
    /\ UNCHANGED <<stream_mode, force_flush, full_output, stdout_clean, stderr_output,
                   stdout_done, stderr_done, readerVars, script, now, fileVars, parts>>

\* maybe_update_block after its while loop: the forced flush of what is
\* left, or the edit to buffer + cursor
maybe_update_block_rest ==
    /\ pc = "update"
    /\ stream_mode = "block"
    /\ Len(block_buffer) < STREAM_MAX_CHARS
    /\ IF force_flush
       THEN /\ IF block_buffer # <<>>
               THEN \E resp \in EditResponses(chat, message_id, block_buffer, clock) :
                       /\ Push(block_buffer, block_buffer, resp)
                       /\ calls' = <<PushCall("final_flush", message_id, block_buffer, resp,
                                                   block_buffer, dropped, clock, rate_limit)>>
               ELSE NoRequest /\ calls' = <<>>
            /\ pc' = "stderr_message"
            /\ UNCHANGED <<proc, now>>
       ELSE /\ LET text == block_buffer \o STREAM_CURSOR
               IN  IF Len(block_buffer) >= STREAM_MIN_CHARS /\ IntervalElapsed
                      /\ text # last_sent_text
                   THEN \E resp \in EditResponses(chat, message_id, text, clock) :
                           /\ Push(text, block_buffer, resp)
                           /\ calls' = <<PushCall("cursor", message_id, text, resp,
                                                       block_buffer, dropped, clock, rate_limit)>>
                   ELSE NoRequest /\ calls' = <<>>
            /\ LoopCheck
    /\ delivery' = IF force_flush THEN delivery \o calls' ELSE delivery
    /\ UNCHANGED <<stream_mode, force_flush, message_id, runVars, readerVars, script,
                   fileVars, parts>>

(***************************************************************************)
(* After the loop: the transcript, the two appends and the delivery.       *)
(***************************************************************************)
\* full_output += f"\n\n--- STDERR ---\n{stderr_output}"
MergeStderr ==
    /\ pc = "merge"
    /\ full_output' = IF stderr_output # <<>>
                      THEN full_output \o <<NL, NL>> \o StderrHeader \o <<NL>> \o stderr_output
                      ELSE full_output
    /\ pc' = "log"
    /\ calls' = <<>>
    /\ UNCHANGED <<stream_mode, force_flush, message_id, proc, stdout_clean, block_buffer,
                   stderr_output, stdout_done, stderr_done, sentVars, readerVars, script,
                   clock, now, chat, fileVars, parts, delivery, pushVars, limitVars>>

\* clean_output = ansi_escape.sub('', full_output)
clean_output == AnsiSub(full_output)

\* a variant that delivers without the append to the log
AppendLogSkipped ==
    /\ pc = "log"
    /\ pc' = "md"
    /\ calls' = <<>>
    /\ UNCHANGED <<stream_mode, force_flush, message_id, proc, runVars, sentVars, readerVars,
                   script, clock, now, chat, fileVars, parts, delivery, pushVars, limitVars>>

\* Variant of AppendLog: an IOError of the append ends the run.
AppendLogFatal ==
    /\ pc = "log"
    /\ \E ok \in BOOLEAN :
          /\ conversation_log' = IF ok THEN Append(conversation_log, full_output)
                                 ELSE conversation_log
          /\ appends' = [appends EXCEPT !.log = @ + 1,
                                        !.errors = IF ok THEN @ ELSE @ \cup {"log"}]
          /\ pc' = IF ok THEN "md" ELSE "done"
    /\ calls' = <<>>
    /\ UNCHANGED <<stream_mode, force_flush, message_id, proc, runVars, sentVars, readerVars,
                   script, clock, now, chat, gemini_md, parts, delivery, pushVars, limitVars>>

\* the append to project_conversation.log; an IOError is logged and the
\* thread goes on
AppendLog ==
    /\ pc = "log"
    /\ \E ok \in BOOLEAN :
          /\ conversation_log' = IF ok THEN Append(conversation_log, full_output)
                                 ELSE conversation_log
          /\ appends' = [appends EXCEPT !.log = @ + 1,
                                        !.errors = IF ok THEN @ ELSE @ \cup {"log"}]
    /\ pc' = "md"
    /\ calls' = <<>>
    /\ UNCHANGED <<stream_mode, force_flush, message_id, proc, runVars, sentVars, readerVars,
                   script, clock, now, chat, gemini_md, parts, delivery, pushVars, limitVars>>

\* update_gemini_md(project_context, agent_response=clean_output), and the
\* branch on the mode that follows it
UpdateGeminiMd ==
    /\ pc = "md"
    /\ \E ok \in BOOLEAN :
          /\ gemini_md' = IF ok /\ PyStrip(clean_output) # <<>>
                              /\ ~IsSubstr(EmptyResponse, clean_output)
                          THEN Append(gemini_md, PyStrip(clean_output))
                          ELSE gemini_md
          /\ appends' = [appends EXCEPT !.md = @ + 1,
                                        !.errors = IF ok THEN @ ELSE @ \cup {"md"}]
    /\ IF stream_mode = "block"
       THEN pc' = "update" /\ force_flush' = TRUE /\ now' = clock
       ELSE pc' = "final_edit" /\ UNCHANGED <<force_flush, now>>
    /\ calls' = <<>>
    /\ UNCHANGED <<stream_mode, message_id, proc, runVars, sentVars, readerVars, script,
                   clock, chat, conversation_log, parts, delivery, pushVars, limitVars>>

\* a variant without the return, which falls through to the final edit
StderrMessageNoReturn ==
    /\ pc = "stderr_message"
    /\ LET text == StderrHeader \o <<NL>> \o stderr_output
       IN  IF PyStrip(stderr_output) # <<>>
           THEN \E resp \in SendResponses :
                   /\ chat' = ChatAfterSend(chat, text, resp)
                   /\ calls' = <<Call("stderr", None, text, Accepted(resp))>>
           ELSE chat' = chat /\ calls' = <<>>
    /\ delivery' = delivery \o calls'
    /\ pc' = "final_edit"
    /\ UNCHANGED <<stream_mode, force_flush, message_id, proc, runVars, sentVars, readerVars,
                   script, clock, now, fileVars, parts, pushVars, limitVars>>

\* block mode: send_message(chat_id, f"--- STDERR ---\n{stderr_output}", "") and return
StderrMessage ==
    /\ pc = "stderr_message"
    /\ LET text == StderrHeader \o <<NL>> \o stderr_output
       IN  IF PyStrip(stderr_output) # <<>>
           THEN \E resp \in SendResponses :
                   /\ chat' = ChatAfterSend(chat, text, resp)
                   /\ calls' = <<Call("stderr", None, text, Accepted(resp))>>
           ELSE chat' = chat /\ calls' = <<>>
    /\ delivery' = delivery \o calls'
    /\ pc' = "done"
    /\ UNCHANGED <<stream_mode, force_flush, message_id, proc, runVars, sentVars, readerVars,
                   script, clock, now, fileVars, parts, pushVars, limitVars>>

\* final_text, with the empty response replaced
final_text == IF PyStrip(clean_output) = <<>> THEN EmptyResponse ELSE PyStrip(clean_output)

formatted_final == format_for_telegram_paragraphs(break_sentences_into_lines(final_text))

\* edit_message_text(chat_id, message_id, parts[0], parse_mode="Markdown")
FinalEdit ==
    /\ pc = "final_edit"
    /\ LET all == Segments(formatted_final, max_len)
       IN  IF all = <<>>
           THEN /\ parts' = <<>>
                /\ pc' = "final_send"
                /\ calls' = <<>>
                /\ UNCHANGED <<chat, clock, limitVars>>
           ELSE \E resp \in EditResponses(chat, message_id, all[1], clock) :
                   /\ EditRequest(all[1], resp)
                   /\ calls' = <<PushCall("final_edit", message_id, all[1], resp,
                                               <<>>, {}, clock, rate_limit)>>
                   /\ parts' = IF EditReturns(resp) THEN Tail(all) ELSE all
                   /\ pc' = IF EditReturns(resp) THEN "final_send" ELSE "final_plain"
    /\ delivery' = delivery \o calls'
    /\ UNCHANGED <<stream_mode, force_flush, message_id, proc, runVars, sentVars, readerVars,
                   script, now, fileVars, pushVars>>

\* the fallback: edit_message_text(chat_id, message_id, parts[0])
FinalEditPlain ==
    /\ pc = "final_plain"
    /\ \E resp \in EditResponses(chat, message_id, parts[1], clock) :
          /\ EditRequest(parts[1], resp)
          /\ calls' = <<PushCall("final_plain", message_id, parts[1], resp,
                                      <<>>, {}, clock, rate_limit)>>
    /\ delivery' = delivery \o calls'
    /\ parts' = Tail(parts)
    /\ pc' = "final_send"
    /\ UNCHANGED <<stream_mode, force_flush, message_id, proc, runVars, sentVars, readerVars,
                   script, now, fileVars, pushVars>>

\* for part in parts[1:]: send_message(chat_id, part, "Markdown"), which
\* sends format_for_telegram(part)
FinalSend ==
    /\ pc = "final_send"
    /\ parts # <<>>
    /\ LET text == format_for_telegram(Head(parts))
       IN  \E resp \in SendResponses :
              /\ chat' = ChatAfterSend(chat, text, resp)
              /\ calls' = <<Call("final_send", None, text, Accepted(resp))>>
    /\ delivery' = delivery \o calls'
    /\ parts' = Tail(parts)
    /\ UNCHANGED <<stream_mode, pc, force_flush, message_id, proc, runVars, sentVars,
                   readerVars, script, clock, now, fileVars, pushVars, limitVars>>

\* re.search(r'`([^`\n]+)`', s): the group of the leftmost match from
\* position i on, <<>> when there is no match
RECURSIVE FileMatchFrom(_, _)
FileMatchFrom(s, i) ==
    IF i > Len(s) THEN <<>>
    ELSE LET e == SkipSet(s, i + 1, AllChars \ {BT, NL})
         IN  IF s[i] = BT /\ e > i + 1 /\ e <= Len(s) /\ s[e] = BT
             THEN SubSeq(s, i + 1, e - 1)
             ELSE FileMatchFrom(s, i + 1)

FileMatch(s) == FileMatchFrom(s, 1)

\* the last part is sent; the check for a file to display, and
\* send_file_with_content (the content and the attachment it sends are the
\* entry of file_sent)
FinalDone ==
    /\ pc = "final_send"
    /\ parts = <<>>
    /\ pc' = "done"
    /\ calls' = <<>>
    /\ LET filename == FileMatch(clean_output)
       IN  file_sent' = IF filename # <<>> /\ filename \in files
                        THEN Append(file_sent, filename) ELSE file_sent
    /\ UNCHANGED files
    /\ UNCHANGED <<stream_mode, force_flush, message_id, proc, runVars, sentVars, readerVars,
                   script, clock, now, chat, fileVars, parts, delivery, pushVars, limitVars>>

(***************************************************************************)
(* One run of run_gemini_streaming in each mode.                           *)
(***************************************************************************)
\* the state at the call of run_gemini_streaming for an agent that writes one
\* of the scripts, in a project directory with the files dir
StreamStart(scripts, dir) ==
    /\ stream_mode \in {"partial", "block", "off"}
    /\ script \in scripts
    /\ pc = "start"
    /\ force_flush = FALSE
    /\ message_id = None
    /\ proc = "none"
    /\ full_output = <<>>
    /\ stdout_clean = <<>>
    /\ block_buffer = <<>>
    /\ stderr_output = <<>>
    /\ last_update_time = 0
    /\ last_sent_text = <<>>
    /\ update_count = 0
    /\ queue = <<>>
    /\ stdout_done = FALSE
    /\ stderr_done = FALSE
    /\ reader = [l \in Labels |-> "idle"]
    /\ read_pos = [l \in Labels |-> 0]
    /\ clock = 0
    /\ now = 0
    /\ chat = <<>>
    /\ conversation_log = <<>>
    /\ gemini_md = <<>>
    /\ parts = <<>>
    /\ calls = <<>>
    /\ delivery = <<>>
    /\ appends = [log |-> 0, md |-> 0, errors |-> {}]
    /\ dropped = {}
    /\ rate_limit = NoLimit
    /\ files = dir
    /\ file_sent = <<>>

StreamInit == StreamStart(StdoutScripts, {}) /\ transport = "any"

\* the value of update before the first update
NoneYet == [kind |-> "none", chat_id |-> "none", text |-> "none"]

\* no update has reached the server
PollIdle ==
    /\ updates = <<>>
    /\ batch = <<>>
    /\ handled = <<>>

\* main has loaded a fresh state and polls; nothing has been handled
MainIdle ==
    /\ main_loop = "polling"
    /\ contexts = {}
    /\ awaiting_input = [c \in Chats |-> "none"]
    /\ context_workflows = {}
    /\ effects = {}
    /\ last_update_id = 0
    /\ logged = {}
    /\ update = NoneYet
    /\ PollIdle

DispatchIdle ==
    /\ project_context = FALSE
    /\ prompt_counter = 0
    /\ notices = {}
    /\ runs = <<>>
    /\ force_new_session = FALSE
    /\ command = NoCommand

Init == StreamInit /\ DispatchIdle /\ MainIdle

Next ==
    \/ StartRun /\ UNCHANGED idleVars
    \/ ProcessExit /\ UNCHANGED idleVars
    \/ \E label \in Labels : ReadChunk(label) /\ UNCHANGED idleVars
    \/ \E label \in Labels : PutEOF(label) /\ UNCHANGED idleVars
    \/ Tick /\ UNCHANGED idleVars
    \/ LoopGet /\ UNCHANGED idleVars
    \/ maybe_update_partial /\ UNCHANGED idleVars
    \/ NoUpdate /\ UNCHANGED idleVars
    \/ maybe_update_block_flush /\ UNCHANGED idleVars
    \/ maybe_update_block_rest /\ UNCHANGED idleVars
    \/ MergeStderr /\ UNCHANGED idleVars
    \/ AppendLog /\ UNCHANGED idleVars
    \/ UpdateGeminiMd /\ UNCHANGED idleVars
    \/ StderrMessage /\ UNCHANGED idleVars
    \/ FinalEdit /\ UNCHANGED idleVars
    \/ FinalEditPlain /\ UNCHANGED idleVars
    \/ FinalSend /\ UNCHANGED idleVars
    \/ FinalDone /\ UNCHANGED <<dispatchVars, mainVars>>

Spec == Init /\ [][Next]_vars

(***************************************************************************)
(* The dispatch of prompts.  handle_gemini_prompt starts one thread running *)
(* run_gemini_streaming per prompt; what a thread does with the streams is  *)
(* the specification Spec above, and only the life of each thread is kept   *)
(* here: started (before the placeholder), running (the agent process is    *)
(* alive), exited (the process has exited, the thread has not finished),    *)
(* done, or abandoned (no placeholder).                                     *)
(***************************************************************************)
MaxPrompts == 3

UserRequest == <<"U">>
AgentResponse == <<"A">>

\* set_project: the project directory exists and becomes the chat's context
set_project ==
    /\ ~project_context
    /\ project_context' = TRUE
    /\ UNCHANGED <<prompt_counter, runs, notices, sessionVars>>

\* handle_new_command: /new marks the chat for a fresh session
handle_new_command ==
    /\ force_new_session' = TRUE
    /\ notices' = notices \cup {"ready"}
    /\ UNCHANGED <<project_context, prompt_counter, runs, command>>

\* what --list-sessions can give: its output lists a session, lists none, or
\* subprocess.run raises
Probes == {"sessions", "empty", "raised"}

\* Variant of BuildCommand: the flag is consumed and the sessions are probed
\* all the same.
BuildCommandProbesAnyway ==
    /\ force_new_session' = FALSE
    /\ \E probe \in Probes : command' = [probe |-> probe, resume |-> probe = "sessions"]

\* the command handle_gemini_prompt builds: with the flag of /new set, no
\* probe and no --resume, and the flag is consumed; without it, --resume
\* latest when the probe lists a session
BuildCommand ==
    IF force_new_session
    THEN /\ force_new_session' = FALSE
         /\ command' = [probe |-> "skipped", resume |-> FALSE]
    ELSE /\ \E probe \in Probes : command' = [probe |-> probe, resume |-> probe = "sessions"]
         /\ UNCHANGED force_new_session

\* Variant of handle_gemini_prompt: the handler runs the agent itself and
\* returns when the run is over.
handle_gemini_prompt_joined ==
    IF ~project_context
    THEN /\ notices' = notices \cup {"no_context"}
         /\ UNCHANGED <<project_context, prompt_counter, runs, sessionVars, fileVars>>
    ELSE /\ prompt_counter < MaxPrompts
         /\ \A i \in DOMAIN runs : runs[i] \in {"done", "abandoned"}
         /\ prompt_counter' = prompt_counter + 1
         /\ \E md_ok \in BOOLEAN, log_ok \in BOOLEAN, gemini_executable \in BOOLEAN :
               /\ gemini_md' = IF md_ok THEN Append(gemini_md, UserRequest) ELSE gemini_md
               /\ conversation_log' = IF log_ok THEN Append(conversation_log, UserRequest)
                                      ELSE conversation_log
               /\ IF ~gemini_executable
                  THEN /\ notices' = notices \cup {"not_found"}
                       /\ UNCHANGED <<runs, sessionVars>>
                  ELSE /\ BuildCommand
                       /\ runs' = Append(runs, "done")
                       /\ notices' = IF prompt_counter' % REMINDER_EVERY = 0
                                     THEN notices \cup {"reminder"} ELSE notices
         /\ UNCHANGED <<project_context, appends>>

\* handle_gemini_prompt for one message of the chat
handle_gemini_prompt ==
    IF ~project_context
    THEN /\ notices' = notices \cup {"no_context"}
         /\ UNCHANGED <<project_context, prompt_counter, runs, sessionVars, fileVars>>
    ELSE /\ prompt_counter < MaxPrompts
         /\ prompt_counter' = prompt_counter + 1
         /\ \E md_ok \in BOOLEAN, log_ok \in BOOLEAN, gemini_executable \in BOOLEAN :
               /\ gemini_md' = IF md_ok THEN Append(gemini_md, UserRequest) ELSE gemini_md
               /\ conversation_log' = IF log_ok THEN Append(conversation_log, UserRequest)
                                      ELSE conversation_log
               /\ IF ~gemini_executable
                  THEN /\ notices' = notices \cup {"not_found"}
                       /\ UNCHANGED <<runs, sessionVars>>
                  ELSE /\ BuildCommand
                       /\ runs' = Append(runs, "started")
                       /\ notices' = IF prompt_counter' % REMINDER_EVERY = 0
                                     THEN notices \cup {"reminder"} ELSE notices
         /\ UNCHANGED <<project_context, appends>>

\* a thread sends the placeholder and, with its id, starts the agent process
RunStart(i) ==
    /\ runs[i] = "started"
    /\ \E got_id \in BOOLEAN :
          runs' = [runs EXCEPT ![i] = IF got_id THEN "running" ELSE "abandoned"]
    /\ UNCHANGED <<project_context, prompt_counter, notices, sessionVars>>

\* the agent process of a thread exits
RunProcessExit(i) ==
    /\ runs[i] = "running"
    /\ runs' = [runs EXCEPT ![i] = "exited"]
    /\ UNCHANGED <<project_context, prompt_counter, notices, sessionVars>>

\* a thread leaves its loop, appends the output to the files and finishes
RunFinish(i) ==
    /\ runs[i] = "exited"
    /\ runs' = [runs EXCEPT ![i] = "done"]
    /\ \E log_ok \in BOOLEAN, md_ok \in BOOLEAN :
          /\ conversation_log' = IF log_ok THEN Append(conversation_log, AgentResponse)
                                 ELSE conversation_log
          /\ gemini_md' = IF md_ok THEN Append(gemini_md, AgentResponse) ELSE gemini_md
    /\ UNCHANGED <<project_context, prompt_counter, notices, sessionVars, appends>>

notFileVars == <<stream_mode, pc, force_flush, message_id, proc, runVars, sentVars,
                  readerVars, script, clock, now, chat, parts, calls, delivery, pushVars,
                  limitVars, projectVars, mainVars>>

DispatchInit ==
    /\ StreamInit
    /\ stream_mode = "partial"
    /\ DispatchIdle
    /\ MainIdle

DispatchNext ==
    \/ set_project /\ UNCHANGED <<streamVars, projectVars, mainVars>>
    \/ handle_gemini_prompt /\ UNCHANGED notFileVars
    \/ \E i \in DOMAIN runs : RunStart(i) /\ UNCHANGED <<streamVars, projectVars, mainVars>>
    \/ \E i \in DOMAIN runs : RunProcessExit(i) /\ UNCHANGED <<streamVars, projectVars, mainVars>>
    \/ \E i \in DOMAIN runs : RunFinish(i) /\ UNCHANGED notFileVars

DispatchSpec == DispatchInit /\ [][DispatchNext]_vars

\* the dispatch of prompts with /new among the commands of the chat
SessionNext ==
    \/ set_project /\ UNCHANGED <<streamVars, projectVars, mainVars>>
    \/ handle_new_command /\ UNCHANGED <<streamVars, projectVars, mainVars>>
    \/ handle_gemini_prompt /\ UNCHANGED notFileVars

SessionSpec == DispatchInit /\ [][SessionNext]_vars

\* handle_gemini_prompt has built a command and started its thread
CommandBuilt == Len(runs') = Len(runs) + 1

LoopBody ==
    \/ LoopGet /\ UNCHANGED idleVars
    \/ maybe_update_partial /\ UNCHANGED idleVars
    \/ NoUpdate /\ UNCHANGED idleVars
    \/ maybe_update_block_flush /\ UNCHANGED idleVars
    \/ maybe_update_block_rest /\ UNCHANGED idleVars

stream_reader(label) ==
    \/ ReadChunk(label) /\ UNCHANGED idleVars
    \/ PutEOF(label) /\ UNCHANGED idleVars

FairSpec ==
    Spec /\ WF_vars(LoopBody) /\ \A label \in Labels : WF_vars(stream_reader(label))

(***************************************************************************)
(* The finalizer of partial and off mode on the outputs an agent can       *)
(* leave: the state is the one the consumer loop exits in when no push has *)
(* succeeded, with the agent's stdout any text made of at most MaxUnits    *)
(* units.                                                                  *)
(***************************************************************************)
MaxUnits == 2

FinalUnits == {<<"a", "b", "c", "d", "e", "f", "g", "h">>, <<"e", "_", "f", "g">>,
               <<".", SP>>, <<NL>>, Fence \o <<".", SP>> \o Fence,
               <<BT, "a", BT>>, <<BT, "b", BT>>}

RECURSIVE TextsOf(_)
TextsOf(n) ==
    IF n = 0 THEN {<<>>}
    ELSE LET shorter == TextsOf(n - 1)
         IN  shorter \cup {t \o u : t \in shorter, u \in FinalUnits}

FinStart(modes, texts, errs, dirs) ==
    /\ stream_mode \in modes
    /\ script \in texts
    /\ stderr_output \in errs
    /\ pc = "merge"
    /\ force_flush = FALSE
    /\ message_id = 1
    /\ proc = "exited"
    /\ full_output = script
    /\ stdout_clean = AnsiSub(script)
    /\ block_buffer = AnsiSub(script)
    /\ last_update_time = 0
    /\ last_sent_text = <<>>
    /\ update_count = 0
    /\ queue = <<>>
    /\ stdout_done = TRUE
    /\ stderr_done = TRUE
    /\ reader = [l \in Labels |-> "done"]
    /\ read_pos = [l \in Labels |-> IF l = "stdout" THEN Len(script) ELSE Len(stderr_output)]
    /\ clock = 0
    /\ now = 0
    /\ chat = <<format_for_telegram(Thinking)>>
    /\ conversation_log = <<>>
    /\ gemini_md = <<>>
    /\ parts = <<>>
    /\ calls = <<>>
    /\ delivery = <<>>
    /\ appends = [log |-> 0, md |-> 0, errors |-> {}]
    /\ dropped = {}
    /\ rate_limit = NoLimit
    /\ transport = "any"
    /\ files \in dirs
    /\ file_sent = <<>>
    /\ DispatchIdle
    /\ MainIdle

FinInit == FinStart({"partial", "off"}, TextsOf(MaxUnits), {<<>>, <<"x">>}, {{}, {<<"b">>}})

FinNext ==
    \/ MergeStderr /\ UNCHANGED idleVars
    \/ AppendLog /\ UNCHANGED idleVars
    \/ UpdateGeminiMd /\ UNCHANGED idleVars
    \/ FinalEdit /\ UNCHANGED idleVars
    \/ FinalEditPlain /\ UNCHANGED idleVars
    \/ FinalSend /\ UNCHANGED idleVars
    \/ FinalDone /\ UNCHANGED <<dispatchVars, mainVars>>

FinSpec == FinInit /\ [][FinNext]_vars

(***************************************************************************)
(* The final delivery of off mode on its own: the thread has appended the  *)
(* output to the log and to GEMINI.md and is about to format the final     *)
(* text and edit the placeholder.  The agent's stdout is any text of at    *)
(* most MaxUnits units, fences and runs of newlines among them.            *)
(***************************************************************************)
FormatUnits == FinalUnits \cup {Fence, <<"!", NL, NL, NL>>}

RECURSIVE FormatTexts(_)
FormatTexts(n) ==
    IF n = 0 THEN {<<>>}
    ELSE LET shorter == FormatTexts(n - 1)
         IN  shorter \cup {t \o u : t \in shorter, u \in FormatUnits}

DeliverInit ==
    /\ stream_mode = "off"
    /\ script \in FormatTexts(MaxUnits)
    /\ stderr_output = <<>>
    /\ pc = "final_edit"
    /\ force_flush = FALSE
    /\ message_id = 1
    /\ proc = "exited"
    /\ full_output = script
    /\ stdout_clean = AnsiSub(script)
    /\ block_buffer = AnsiSub(script)
    /\ last_update_time = 0
    /\ last_sent_text = <<>>
    /\ update_count = 0
    /\ queue = <<>>
    /\ stdout_done = TRUE
    /\ stderr_done = TRUE
    /\ reader = [l \in Labels |-> "done"]
    /\ read_pos = [l \in Labels |-> IF l = "stdout" THEN Len(script) ELSE 0]
    /\ clock = 0
    /\ now = 0
    /\ chat = <<format_for_telegram(Thinking)>>
    /\ conversation_log = <<full_output>>
    /\ gemini_md = IF PyStrip(clean_output) # <<>> /\ ~IsSubstr(EmptyResponse, clean_output)
                   THEN <<PyStrip(clean_output)>> ELSE <<>>
    /\ parts = <<>>
    /\ calls = <<>>
    /\ delivery = <<>>
    /\ appends = [log |-> 1, md |-> 1, errors |-> {}]
    /\ dropped = {}
    /\ rate_limit = NoLimit
    /\ transport = "any"
    /\ files = {}
    /\ file_sent = <<>>
    /\ DispatchIdle
    /\ MainIdle

DeliverNext ==
    \/ FinalEdit /\ UNCHANGED idleVars
    \/ FinalEditPlain /\ UNCHANGED idleVars
    \/ FinalSend /\ UNCHANGED idleVars
    \/ FinalDone /\ UNCHANGED <<dispatchVars, mainVars>>

DeliverSpec == DeliverInit /\ [][DeliverNext]_vars

(***************************************************************************)
(* Properties of the run.                                                  *)
(***************************************************************************)
\* the consumer loop has been left
LoopExited ==
    \/ pc \in {"merge", "log", "md", "final_edit", "final_plain", "final_send",
               "stderr_message", "done"}
    \/ (pc = "update" /\ force_flush)

\* the thread is before or inside the consumer loop
InLoop == pc \in {"start", "get"} \/ (pc = "update" /\ ~force_flush)

\* the kinds of call that are edits made by the scheduler
PushKinds == {"partial", "flush", "cursor", "final_flush"}
\* the kinds of call that are requests of edit_message_text
EditKinds == PushKinds \cup {"final_edit", "final_plain"}

Calls(kinds) == {i \in 1..Len(calls) : calls[i].kind \in kinds}

\* C1: the consumer loop is left if and only if the stdout EOF and the
\* stderr EOF have been consumed and the process has exited: the thread is
\* never past the loop with one of the three missing, and an iteration
\* that ends with all three holding leaves the loop (and no other does).
C1_LoopExitsIffDrainedAndExited ==
    /\ [](LoopExited => (stdout_done /\ stderr_done /\ proc = "exited"))
    /\ [][(pc = "update" /\ ~force_flush /\ pc' # "update")
            => (pc' = "merge" <=> (stdout_done /\ stderr_done /\ proc' = "exited"))]_vars

C1_Witness ==
    pc = "merge" /\ stdout_clean # <<>> /\ stderr_output # <<>> /\ queue = <<>>

\* C3 (as claimed): a successful push of the scheduler contains the stdout
\* text of every push that failed since the successful push before it.
C3_NoTextLostOnFailedEdit ==
    \A i \in Calls(PushKinds) :
       calls[i].ok => \A d \in calls[i].dropped : IsSubstr(d, calls[i].carried)

\* C4 (as claimed): an edit request is made only when at least retry_after
\* seconds have passed since the latest 429 response.
C4_HonoursRetryAfter ==
    \A i \in Calls(EditKinds) :
       calls[i].limit # NoLimit
          => calls[i].at >= calls[i].limit.at + calls[i].limit.retry_after

\* C4 (amended): an edit request is made only when at least
\* min(retry_after, 5) seconds have passed since the latest 429 response.
C4_WaitsCappedRetryAfter ==
    \A i \in Calls(EditKinds) :
       calls[i].limit # NoLimit
          => calls[i].at >= calls[i].limit.at + Min(calls[i].limit.retry_after, SLEEP_CAP)

C4_Witness ==
    \E i \in Calls(EditKinds) :
       /\ calls[i].limit # NoLimit
       /\ calls[i].limit.retry_after > SLEEP_CAP
       /\ calls[i].at < calls[i].limit.at + calls[i].limit.retry_after

\* C6 (as claimed): in partial mode the text before the cursor, truncation
\* marker included, is at most STREAM_TAIL_LIMIT characters long.
C6_TailWithinLimit ==
    \A i \in Calls({"partial"}) :
       Len(calls[i].text) - Len(STREAM_CURSOR) <= STREAM_TAIL_LIMIT

\* C6 (amended): in partial mode the stdout text shown is at most
\* STREAM_TAIL_LIMIT characters long and the text before the cursor, with
\* the one-character truncation marker, at most STREAM_TAIL_LIMIT + 1.
C6_TailWithinLimitPlusMarker ==
    \A i \in Calls({"partial"}) :
       /\ Len(calls[i].carried) <= STREAM_TAIL_LIMIT
       /\ Len(calls[i].text) - Len(STREAM_CURSOR) <= STREAM_TAIL_LIMIT + 1
       /\ calls[i].text \in {calls[i].carried \o STREAM_CURSOR,
                             <<ELLIPSIS>> \o calls[i].carried \o STREAM_CURSOR}

C6_Witness ==
    \E i \in Calls({"partial"}) :
       Len(stdout_clean) > STREAM_TAIL_LIMIT /\ calls[i].text[1] = ELLIPSIS

\* C7 (as claimed): in block mode every edit and send of the run after the
\* placeholder carries at most STREAM_MAX_CHARS characters.
C7_BlockCallsWithinMax ==
    stream_mode = "block"
       => \A i \in Calls({"flush", "continuation", "cursor", "final_flush", "stderr"}) :
             Len(calls[i].text) <= STREAM_MAX_CHARS

\* the number of calls of a kind in the delivery
NumDelivered(kind) == Cardinality({i \in 1..Len(delivery) : delivery[i].kind = kind})

\* C8: the finalisation runs once and after the loop: inside the loop
\* nothing has been appended or delivered, no append is attempted twice,
\* and at the end each append has been attempted once and the final
\* delivery (the final edit, in block mode the forced flush) made once.
C8_FinalizerOnceAfterLoop ==
    /\ InLoop => (appends.log = 0 /\ appends.md = 0 /\ delivery = <<>>)
    /\ appends.log <= 1 /\ appends.md <= 1
    /\ NumDelivered("final_edit") <= 1 /\ NumDelivered("final_flush") <= 1
    /\ pc = "done" =>
          /\ appends.log = 1 /\ appends.md = 1
          /\ NumDelivered("final_edit") = (IF stream_mode = "block" THEN 0 ELSE 1)
          /\ NumDelivered("final_flush") =
                (IF stream_mode = "block" /\ block_buffer # <<>> THEN 1 ELSE 0)

C8_Witness ==
    pc = "done" /\ stdout_clean # <<>> /\ Len(conversation_log) = 1 /\ Len(gemini_md) = 1

\* C9: when a call of the final delivery has been made, the append to the
\* log and the append to GEMINI.md have both been attempted.
C9_AppendsBeforeDelivery ==
    delivery # <<>> => (appends.log = 1 /\ appends.md = 1)

C9_Witness ==
    /\ \E i \in 1..Len(delivery) : ~delivery[i].ok
    /\ Len(conversation_log) = 1 /\ Len(gemini_md) = 1

\* C2: every run whose agent process has been started eventually leaves the
\* consumer loop for the finalizer, even when the process never exits on its
\* own.
C2_RunLeavesLoop == (proc = "running") ~> LoopExited

\* C5: at any instant at most one run of the chat is running, whatever
\* prompts handle_gemini_prompt has handled for the chat.
C5_AtMostOneRunning == Cardinality({i \in DOMAIN runs : runs[i] = "running"}) <= 1

\* C10: in partial and off mode no segment of the formatted final text, as
\* transmitted by the final edit or by the sends of the remaining segments,
\* exceeds the transport maximum max_len.
C10_SegmentsTransmittedWithinMax ==
    stream_mode # "block" =>
        \A i \in DOMAIN delivery :
            delivery[i].kind \in {"final_edit", "final_plain", "final_send"}
                => Len(delivery[i].text) <= max_len

\* C11: when the Markdown delivery of a final segment is rejected, the edit
\* of the first segment or the send of a later one, the next call of the
\* delivery is the unformatted delivery of that segment.
C11_RejectedSegmentResentPlain ==
    pc = "done" =>
        \A i \in DOMAIN delivery :
            (delivery[i].kind \in {"final_edit", "final_send"} /\ ~delivery[i].ok)
                => /\ i < Len(delivery)
                   /\ delivery[i + 1].kind \in {"final_plain", "final_send_plain"}
                   /\ delivery[i].kind = "final_edit"
                         => delivery[i + 1].text = delivery[i].text

\* the fenced regions of a text, in order
Fences(text) ==
    LET split == SplitFences(text)
    IN  [k \in 1..(Len(split) \div 2) |-> split[2 * k]]

\* C12: the formatting of the final text leaves every fenced region as it
\* is in the input: the formatted text has the fenced regions of the input,
\* character for character and in the same order.
C12_FencesUnchanged ==
    Fences(format_for_telegram_paragraphs(break_sentences_into_lines(final_text)))
        = Fences(final_text)

C12_Witness ==
    /\ pc = "done"
    /\ \E k \in DOMAIN Fences(final_text) :
          \E i \in DOMAIN Fences(final_text)[k] : Fences(final_text)[k][i] \in SentenceEnd
    /\ formatted_final # final_text
    /\ \E i \in DOMAIN delivery : delivery[i].ok

\* the first and last position of every fenced region of a text from
\* position i on
RECURSIVE FenceSpansFrom(_, _)
FenceSpansFrom(s, i) ==
    IF i > Len(s) THEN {}
    ELSE IF FenceEnd(s, i) # 0
         THEN {<<i, FenceEnd(s, i) - 1>>} \cup FenceSpansFrom(s, FenceEnd(s, i))
    ELSE FenceSpansFrom(s, i + 1)

\* the segment of a position of the formatted text
SegmentOf(i) == (i - 1) \div max_len

\* C13: no boundary between the segments of the final text falls inside a
\* fenced region: every fenced region, and so every one short enough for a
\* segment, is delivered whole in one segment.
C13_FencesWithinOneSegment ==
    pc = "done" =>
        \A span \in FenceSpansFrom(formatted_final, 1) :
            span[2] - span[1] < max_len => SegmentOf(span[1]) = SegmentOf(span[2])

\* every single-backtick token of a text from position i on, in order
RECURSIVE TokensFrom(_, _)
TokensFrom(s, i) ==
    IF i > Len(s) THEN <<>>
    ELSE LET e == SkipSet(s, i + 1, AllChars \ {BT, NL})
         IN  IF s[i] = BT /\ e > i + 1 /\ e <= Len(s) /\ s[e] = BT
             THEN <<SubSeq(s, i + 1, e - 1)>> \o TokensFrom(s, e + 1)
             ELSE TokensFrom(s, i + 1)

\* C14: the file delivered at the end of the finalisation is the one named
\* by the first backtick token of the transcript that names a file of the
\* project directory; tokens that name no file are skipped, and a file is
\* delivered whenever a token names one.
C14_FirstExistingFileDelivered ==
    pc = "done" =>
        LET tokens == TokensFrom(clean_output, 1)
            naming == {k \in DOMAIN tokens : tokens[k] \in files}
        IN  IF naming = {} THEN file_sent = <<>>
            ELSE file_sent = <<tokens[CHOOSE k \in naming : \A j \in naming : k <= j]>>

\* the characters the agent writes to stderr
StderrChars == {StderrScript[i] : i \in DOMAIN StderrScript}

HasStderr(text) == \E i \in DOMAIN text : text[i] \in StderrChars

\* C15: no text read from stderr is in a message pushed before the consumer
\* loop has exited: while the thread is in the loop no message of the chat
\* holds stderr text and nothing is in the log or in GEMINI.md, and no edit
\* or send of the scheduler (partial, block flush, cursor, forced flush)
\* ever carries stderr text.
C15_NoStderrBeforeLoopExit ==
    /\ InLoop => /\ \A m \in DOMAIN chat : ~HasStderr(chat[m])
                 /\ conversation_log = <<>>
                 /\ gemini_md = <<>>
    /\ \A i \in Calls(PushKinds \cup {"continuation"}) : ~HasStderr(calls[i].text)

C15_Witness ==
    /\ InLoop
    /\ stderr_output # <<>>
    /\ stream_mode \in {"partial", "block"}
    /\ \E i \in Calls(PushKinds) :
          calls[i].ok /\ \E k \in DOMAIN calls[i].text : calls[i].text[k] \in {"a", "b", "c"}

(***************************************************************************)
(* The exception path of run_gemini_streaming: the try of the consumer     *)
(* loop and the finalisation, and its except clause.                       *)
(***************************************************************************)
\* "Error during execution: {e}"
ExecutionError == <<"!", "e">>

\* the steps inside the try that call the transport or the file system and
\* can raise an exception their own handlers do not catch
RaisingSteps == {"update", "stderr_message", "final_edit", "final_plain", "final_send"}

\* a statement of the try raises: control goes to the except clause
Raise ==
    /\ pc \in RaisingSteps
    /\ pc = "update" => stream_mode # "off"
    /\ pc' = "except"
    /\ UNCHANGED <<stream_mode, force_flush, message_id, proc, runVars, sentVars, readerVars,
                   script, clock, now, chat, fileVars, parts, calls, delivery, pushVars,
                   limitVars>>

\* except Exception: the error is reported with send_message and the
\* function returns
ExceptClause ==
    /\ pc = "except"
    /\ LET text == format_for_telegram(ExecutionError)
       IN  \E resp \in SendResponses :
              /\ chat' = ChatAfterSend(chat, text, resp)
              /\ calls' = <<Call("error", None, text, Accepted(resp))>>
    /\ pc' = "failed"
    /\ UNCHANGED <<stream_mode, force_flush, message_id, proc, runVars, sentVars, readerVars,
                   script, clock, now, fileVars, parts, delivery, pushVars, limitVars>>

RaiseNext ==
    \/ Next
    \/ Raise /\ UNCHANGED idleVars
    \/ ExceptClause /\ UNCHANGED idleVars

RaiseSpec == Init /\ [][RaiseNext]_vars

\* C16: an exception raised in the consumer loop or in the finalisation is
\* caught, the execution-error message is sent, and the worker ends with
\* the run over: the agent process is not left running.
C16_ExceptionEndsRun ==
    pc = "failed" =>
        /\ Len(calls) = 1
        /\ calls[1].kind = "error"
        /\ proc = "exited"

\* the runs whose thread or agent process is still at work
Active == {i \in DOMAIN runs : runs[i] \in {"started", "running", "exited"}}

\* C18: handle_gemini_prompt starts the run and returns: the step that adds
\* a run leaves it started, not yet running or over, and touches no other
\* run; and while a run is at work the handler can be entered again for the
\* next message.
C18_PromptIsFireAndForget ==
    /\ [][Len(runs') > Len(runs)
            => /\ runs'[Len(runs')] = "started"
               /\ \A i \in DOMAIN runs : runs'[i] = runs[i]]_vars
    /\ []((Active # {} /\ prompt_counter < MaxPrompts)
            => ENABLED (handle_gemini_prompt /\ UNCHANGED notFileVars))

C18_Witness ==
    \E i \in DOMAIN runs, j \in DOMAIN runs :
        i < j /\ runs[i] = "running" /\ runs[j] \in {"started", "running"}

(***************************************************************************)
(* The dispatch loop of main: one action per update taken from getUpdates, *)
(* with the handler it is dispatched to.                                   *)
(***************************************************************************)
\* the texts of the messages: commands, answers of the context workflow
\* ("accept", "decline"), anything else
Commands == {"/p name", "/e", "/context"}
Texts == Commands \cup {"accept", "decline", "text"}
\* the data of the callback queries, up to the name after the colon
CallbackData == {"file:", "set_project:", "new_project_prompt", "e_select:",
                 "e_params_no:", "e_params_yes:"}

Done(chat_id, effect) == effects \cup {<<chat_id, effect>>}

otherMainVars == <<streamVars, dispatchVars, projectVars, pollVars>>

\* getUpdates fails or answers not ok: logged, and the loop polls again
GetUpdatesFails ==
    /\ main_loop = "polling"
    /\ logged' = logged \cup {"network"}
    /\ UNCHANGED <<main_loop, contexts, awaiting_input, context_workflows, effects,
                   last_update_id, update, otherMainVars>>

\* Ctrl-C: the loop is left by the break of the KeyboardInterrupt clause
KeyboardInterrupt ==
    /\ main_loop = "polling"
    /\ main_loop' = "interrupted"
    /\ UNCHANGED <<contexts, awaiting_input, context_workflows, effects, last_update_id,
                   logged, update, otherMainVars>>

\* a handler raises (a request of its own without try, a process error, an
\* I/O error): the except clauses of main log it and the loop polls again,
\* past the update.  A callback may raise for any chat; a message raises in
\* the handlers of the authorized chat, and when input is awaited outside a
\* context workflow that is after the awaited input was deleted.
UpdateRaises(chat_id) ==
    /\ main_loop = "polling"
    /\ last_update_id < MaxUpdates
    /\ last_update_id' = last_update_id + 1
    /\ logged' = logged \cup {"unhandled"}
    /\ \E kind \in IF chat_id = AUTHORIZED_USER_ID THEN {"message", "callback"}
                                                   ELSE {"callback"} :
          /\ update' = [kind |-> kind, chat_id |-> chat_id, text |-> "raises"]
          /\ awaiting_input' = IF kind = "message" /\ chat_id \notin context_workflows
                                THEN [awaiting_input EXCEPT ![chat_id] = "none"]
                                ELSE awaiting_input
    /\ UNCHANGED <<main_loop, contexts, context_workflows, effects, otherMainVars>>

\* set_project for a chat: the project directory exists or not
SetProject(chat_id, fx) ==
    \E is_dir \in BOOLEAN :
        IF is_dir
        THEN /\ contexts' = contexts \cup {chat_id}
             /\ effects' = fx \cup {<<chat_id, "set_project">>}
        ELSE /\ contexts' = contexts
             /\ effects' = fx \cup {<<chat_id, "notice">>}

\* the standard command dispatcher of main for a text of the chat
Command(chat_id, text, fx) ==
    CASE text = "/p name" ->
            /\ SetProject(chat_id, fx)
            /\ UNCHANGED <<main_loop, logged>>
      [] text = "/e" ->
            /\ effects' = fx \cup {<<chat_id, IF chat_id \in contexts THEN "keyboard" ELSE "notice">>}
            /\ UNCHANGED <<main_loop, contexts, logged>>
      [] text = "/context" ->
            \* handle_context_command is not defined: NameError
            /\ logged' = logged \cup {"unhandled"}
            /\ effects' = fx
            /\ UNCHANGED <<main_loop, contexts>>
      [] OTHER ->
            /\ \E gemini_executable \in BOOLEAN :
                  effects' = fx \cup {<<chat_id, IF chat_id \in contexts /\ gemini_executable
                                              THEN "agent_run" ELSE "notice">>}
            /\ UNCHANGED <<main_loop, contexts, logged>>

\* the context workflow handler of main for a text of the chat
ContextWorkflow(chat_id, text) ==
    IF text = "decline"
    THEN /\ context_workflows' = context_workflows \ {chat_id}
         /\ effects' = Done(chat_id, "notice")
         /\ UNCHANGED <<main_loop, contexts, logged>>
    ELSE IF chat_id \notin contexts
    THEN \* state["contexts"][chat_id]: KeyError
         /\ logged' = logged \cup {"unhandled"}
         /\ UNCHANGED <<main_loop, contexts, context_workflows, effects>>
    ELSE IF text = "accept"
    THEN /\ context_workflows' = context_workflows \ {chat_id}
         /\ effects' = Done(chat_id, "gemini_md_written")
         /\ UNCHANGED <<main_loop, contexts, logged>>
    ELSE \E gemini_executable \in BOOLEAN, completed \in BOOLEAN :
            IF ~gemini_executable
            THEN \* the error is sent and main returns
                 /\ effects' = Done(chat_id, "notice")
                 /\ main_loop' = "returned"
                 /\ UNCHANGED <<contexts, context_workflows, logged>>
            ELSE IF completed
            THEN /\ effects' = Done(chat_id, "proposal")
                 /\ UNCHANGED <<main_loop, contexts, context_workflows, logged>>
            ELSE \* subprocess.run(..., timeout=300, check=True) raises
                 /\ effects' = Done(chat_id, "notice")
                 /\ logged' = logged \cup {"unhandled"}
                 /\ UNCHANGED <<main_loop, contexts, context_workflows>>

\* Variant of Message: a command leaves the awaited input pending.
MessageKeepsAwaiting(chat_id, text) ==
    /\ main_loop = "polling"
    /\ last_update_id < MaxUpdates
    /\ last_update_id' = last_update_id + 1
    /\ update' = [kind |-> "message", chat_id |-> chat_id, text |-> text]
    /\ IF chat_id # AUTHORIZED_USER_ID
       THEN /\ effects' = Done(chat_id, "not_authorized")
            /\ UNCHANGED <<main_loop, contexts, awaiting_input, context_workflows, logged>>
       ELSE IF chat_id \in context_workflows
       THEN /\ ContextWorkflow(chat_id, text)
            /\ UNCHANGED awaiting_input
       ELSE IF awaiting_input[chat_id] = "none"
       THEN /\ Command(chat_id, text, effects)
            /\ UNCHANGED <<awaiting_input, context_workflows>>
       ELSE /\ awaiting_input' = IF text \in Commands THEN awaiting_input
                               ELSE [awaiting_input EXCEPT ![chat_id] = "none"]
            /\ UNCHANGED context_workflows
            /\ IF text \in Commands
               THEN Command(chat_id, text, Done(chat_id, "notice"))
               ELSE IF awaiting_input[chat_id] = "new_project_name"
               THEN \E exists \in BOOLEAN :
                       /\ contexts' = IF exists THEN contexts ELSE contexts \cup {chat_id}
                       /\ effects' = Done(chat_id, IF exists THEN "notice" ELSE "create_project")
                       /\ UNCHANGED <<main_loop, logged>>
               ELSE /\ effects' = Done(chat_id, IF chat_id \in contexts THEN "execute_file"
                                                                  ELSE "notice")
                    /\ UNCHANGED <<main_loop, contexts, logged>>
    /\ UNCHANGED otherMainVars

\* an update with a message of a chat
Message(chat_id, text) ==
    /\ main_loop = "polling"
    /\ last_update_id < MaxUpdates
    /\ last_update_id' = last_update_id + 1
    /\ update' = [kind |-> "message", chat_id |-> chat_id, text |-> text]
    /\ IF chat_id # AUTHORIZED_USER_ID
       THEN /\ effects' = Done(chat_id, "not_authorized")
            /\ UNCHANGED <<main_loop, contexts, awaiting_input, context_workflows, logged>>
       ELSE IF chat_id \in context_workflows
       THEN /\ ContextWorkflow(chat_id, text)
            /\ UNCHANGED awaiting_input
       ELSE IF awaiting_input[chat_id] = "none"
       THEN /\ Command(chat_id, text, effects)
            /\ UNCHANGED <<awaiting_input, context_workflows>>
       ELSE /\ awaiting_input' = [awaiting_input EXCEPT ![chat_id] = "none"]
            /\ UNCHANGED context_workflows
            /\ IF text \in Commands
               THEN Command(chat_id, text, Done(chat_id, "notice"))
               ELSE IF awaiting_input[chat_id] = "new_project_name"
               THEN \E exists \in BOOLEAN :
                       /\ contexts' = IF exists THEN contexts ELSE contexts \cup {chat_id}
                       /\ effects' = Done(chat_id, IF exists THEN "notice" ELSE "create_project")
                       /\ UNCHANGED <<main_loop, logged>>
               ELSE /\ effects' = Done(chat_id, IF chat_id \in contexts THEN "execute_file"
                                                                  ELSE "notice")
                    /\ UNCHANGED <<main_loop, contexts, logged>>
    /\ UNCHANGED otherMainVars

\* an update with a callback query on a message of a chat:
\* handle_callback_query
Callback(chat_id, data) ==
    /\ main_loop = "polling"
    /\ last_update_id < MaxUpdates
    /\ last_update_id' = last_update_id + 1
    /\ update' = [kind |-> "callback", chat_id |-> chat_id, text |-> data]
    /\ CASE data \in {"file:", "e_select:"} ->
               /\ \E is_file \in BOOLEAN :
                     effects' = Done(chat_id, IF chat_id \in contexts /\ is_file THEN "send_file"
                                                                          ELSE "notice")
               /\ UNCHANGED <<contexts, awaiting_input>>
         [] data = "set_project:" ->
               /\ SetProject(chat_id, effects)
               /\ UNCHANGED awaiting_input
         [] data = "new_project_prompt" ->
               /\ awaiting_input' = [awaiting_input EXCEPT ![chat_id] = "new_project_name"]
               /\ effects' = Done(chat_id, "notice")
               /\ UNCHANGED contexts
         [] data = "e_params_no:" ->
               /\ effects' = Done(chat_id, IF chat_id \in contexts THEN "execute_file" ELSE "notice")
               /\ UNCHANGED <<contexts, awaiting_input>>
         [] data = "e_params_yes:" ->
               /\ awaiting_input' = [awaiting_input EXCEPT ![chat_id] = "e_exec_params"]
               /\ effects' = Done(chat_id, "notice")
               /\ UNCHANGED contexts
    /\ UNCHANGED <<main_loop, context_workflows, logged, otherMainVars>>

\* load_state: the state file holds the contexts and the context workflows
\* of the earlier runs
MainInit ==
    /\ StreamInit
    /\ stream_mode = "partial"
    /\ DispatchIdle
    /\ main_loop = "polling"
    /\ contexts \in SUBSET {AUTHORIZED_USER_ID}
    /\ context_workflows \in SUBSET {AUTHORIZED_USER_ID}
    /\ awaiting_input = [c \in Chats |-> "none"]
    /\ effects = {}
    /\ last_update_id = 0
    /\ logged = {}
    /\ update = NoneYet
    /\ PollIdle

MainNext ==
    \/ GetUpdatesFails
    \/ KeyboardInterrupt
    \/ \E chat_id \in Chats : UpdateRaises(chat_id)
    \/ \E chat_id \in Chats, text \in Texts : Message(chat_id, text)
    \/ \E chat_id \in Chats, data \in CallbackData : Callback(chat_id, data)

MainSpec == MainInit /\ [][MainNext]_vars

\* C17: the dispatch loop of main is never left except by a keyboard
\* interrupt: whatever the updates and the failures of their handlers, main
\* is polling or was interrupted.
C17_OnlyInterruptEndsLoop == main_loop \in {"polling", "interrupted"}

\* C19: nothing is done for a chat other than the authorized one except the
\* not-authorized reply: no project is set for it, no input is awaited from
\* it, and no handler has acted for it.
C19_OnlyAuthorizedChatIsServed ==
    \A chat_id \in Chats \ {AUTHORIZED_USER_ID} :
        /\ chat_id \notin contexts
        /\ awaiting_input[chat_id] = "none"
        /\ \A e \in effects : e[1] = chat_id => e[2] = "not_authorized"

\* the characters the agent writes to stdout
StdoutChars == UNION {{s[i] : i \in DOMAIN s} : s \in StdoutScripts}

\* a message that holds a flushed full block: STREAM_MAX_CHARS characters of
\* stdout with no cursor
IsFlushedBlock(text) ==
    Len(text) = STREAM_MAX_CHARS /\ \A k \in DOMAIN text : text[k] \in StdoutChars

\* C20: in block mode a flushed full block stays in its own message: no
\* later edit changes a message that holds one, whether or not the send
\* that starts the continuation message succeeded.
C20_FlushedBlockNotOverwritten ==
    [][stream_mode = "block"
         => \A m \in DOMAIN chat : IsFlushedBlock(chat[m]) => chat'[m] = chat[m]]_vars

\* C21: in partial mode a tick of the scheduler attempts an edit exactly
\* when the cleaned stdout is not empty, at least STREAM_UPDATE_INTERVAL
\* seconds lie between the last successful push (or the start of the run)
\* and the tick, and the tail plus cursor is not the text last pushed; and
\* the time of a successful push is what the interval is counted from.
C21_PartialEditIffDue ==
    [][(pc = "update" /\ stream_mode = "partial" /\ pc' # "update")
         => /\ (calls' # <<>>)
                 <=> /\ stdout_clean # <<>>
                     /\ now - last_update_time >= STREAM_UPDATE_INTERVAL
                     /\ VisibleTail(stdout_clean) \o STREAM_CURSOR # last_sent_text
            /\ \A i \in DOMAIN calls' :
                  /\ calls'[i].kind = "partial"
                  /\ calls'[i].text = VisibleTail(stdout_clean) \o STREAM_CURSOR
                  /\ calls'[i].ok => last_update_time' = now
                  /\ ~calls'[i].ok => last_update_time' = last_update_time]_vars

C21_Witness ==
    /\ stream_mode = "partial"
    /\ update_count >= 2
    /\ \E i \in Calls({"partial"}) : calls[i].ok

\* C22: an edit that is answered with "message is not modified" counts as
\* a successful push: edit_message_text returns True, and the scheduler
\* records the text as last pushed and the tick as the time of the push.
C22_NotModifiedIsSuccess ==
    \A i \in Calls(EditKinds) :
        calls[i].not_modified
            => /\ calls[i].ok
               /\ calls[i].kind \in PushKinds => last_sent_text = calls[i].text

\* C23: a failed edit of the scheduler inside the loop (rate limit,
\* rejection, network error) is not fatal and changes no display state: the
\* tick leaves last_sent_text, last_update_time and update_count as they
\* were, and the thread goes on with the loop (or leaves it by its exit
\* condition).
C23_FailedEditChangesNothing ==
    [][(/\ pc = "update" /\ ~force_flush
        /\ calls' # calls
        /\ \E i \in DOMAIN calls' : calls'[i].kind \in {"partial", "cursor", "flush"}
                                    /\ ~calls'[i].ok)
         => /\ UNCHANGED <<last_sent_text, last_update_time, update_count>>
            /\ pc' \in {"update", "get", "merge"}]_vars

C23_Witness ==
    /\ pc = "get"
    /\ update_count >= 1
    /\ proc = "running"
    /\ \E i \in Calls({"partial", "cursor"}) : ~calls[i].ok /\ calls[i].limit.retry_after = 0
    /\ \E i \in Calls({"partial", "cursor"}) : calls[i].text # last_sent_text

(***************************************************************************)
(* A run whose agent writes control sequences to stdout.                   *)
(***************************************************************************)
AnsiInit == StreamStart(AnsiScripts, {}) /\ transport = "any" /\ DispatchIdle /\ MainIdle

AnsiSpec == AnsiInit /\ [][Next]_vars

\* C24: the cleaned stdout built chunk by chunk is, at every point up to the
\* merge of stderr, the whole raw stdout so far with its control sequences
\* removed, however the reader cut the output into chunks.
C24_CleanOfChunksIsCleanOfWhole ==
    (InLoop \/ pc = "merge") => stdout_clean = AnsiSub(full_output)

(***************************************************************************)
(* A run on a transport that answers every call with success.              *)
(***************************************************************************)
ReliableInit ==
    StreamStart(StdoutScripts, {}) /\ transport = "reliable" /\ DispatchIdle /\ MainIdle

ReliableNext ==
    \/ StartRun /\ UNCHANGED idleVars
    \/ ProcessExit /\ UNCHANGED idleVars
    \/ \E label \in Labels : ReadChunk(label) /\ UNCHANGED idleVars
    \/ \E label \in Labels : PutEOF(label) /\ UNCHANGED idleVars
    \/ Tick /\ UNCHANGED idleVars
    \/ LoopGet /\ UNCHANGED idleVars
    \/ maybe_update_partial /\ UNCHANGED idleVars
    \/ NoUpdate /\ UNCHANGED idleVars
    \/ maybe_update_block_flush /\ UNCHANGED idleVars
    \/ maybe_update_block_rest /\ UNCHANGED idleVars
    \/ MergeStderr /\ UNCHANGED idleVars
    \/ AppendLog /\ UNCHANGED idleVars
    \/ UpdateGeminiMd /\ UNCHANGED idleVars
    \/ StderrMessage /\ UNCHANGED idleVars
    \/ FinalEdit /\ UNCHANGED idleVars
    \/ FinalSend /\ UNCHANGED idleVars
    \/ FinalDone /\ UNCHANGED <<dispatchVars, mainVars>>

ReliableSpec == ReliableInit /\ [][ReliableNext]_vars

\* the texts of the placeholders of a run
Placeholders == {format_for_telegram(Thinking), <<ELLIPSIS>>}

\* C25: when the run is over and every transport call has succeeded, no
\* message of the run still shows a placeholder, whatever the mode and the
\* length of the output.
C25_NoPlaceholderLeft ==
    pc = "done" => \A m \in DOMAIN chat : chat[m] \notin Placeholders

(***************************************************************************)
(* The queue between the readers and the consumer loop.                    *)
(***************************************************************************)
\* the text of the chunks of one channel that wait on the queue, in order
RECURSIVE Queued(_, _)
Queued(q, label) ==
    IF q = <<>> THEN <<>>
    ELSE (IF Head(q).label = label THEN Head(q).chunk ELSE <<>>) \o Queued(Tail(q), label)

\* what the reader of a channel has read so far: its chunks in the order read
Produced(label) == Take(Written(label), read_pos[label])

\* C26: whatever the interleaving of the two readers, the chunks of one
\* channel are consumed in the order the reader read them: all through the
\* loop each accumulator followed by the chunks of its channel still queued
\* is what the reader has read, and at loop exit the stdout accumulator is
\* all the stdout chunks in order and the stderr accumulator all the stderr
\* chunks in order, none lost and none twice.
C26_ChunksConsumedInOrder ==
    /\ (InLoop \/ pc = "merge")
          => /\ full_output \o Queued(queue, "stdout") = Produced("stdout")
             /\ stderr_output \o Queued(queue, "stderr") = Produced("stderr")
    /\ pc = "merge"
          => /\ full_output = Produced("stdout")
             /\ stderr_output = Produced("stderr")

\* the loop is left with several stdout chunks and a stderr chunk consumed
C26_Witness ==
    /\ pc = "merge"
    /\ Len(full_output) > READ_SIZE
    /\ stderr_output # <<>>

(***************************************************************************)
(* The readers on output that is not UTF-8.  The pipes are opened with     *)
(* text=True, encoding='utf-8' and the default strict error handling, so   *)
(* stream.read(512) raises UnicodeDecodeError on a byte sequence that is   *)
(* not UTF-8: the exception leaves stream_reader, and the thread ends.     *)
(***************************************************************************)
\* stream.read(512) raises in the reader of a channel
ReadRaises(label) ==
    /\ reader[label] = "reading"
    /\ reader' = [reader EXCEPT ![label] = "raised"]
    /\ UNCHANGED <<stream_mode, pc, force_flush, message_id, proc, runVars, sentVars, queue,
                   read_pos, script, clock, now, chat, fileVars, parts, calls, delivery,
                   pushVars, limitVars>>

DecodeNext ==
    \/ Next
    \/ \E label \in Labels : ReadRaises(label) /\ UNCHANGED idleVars

DecodeSpec == Init /\ [][DecodeNext]_vars

\* the positions of the queue that hold the EOF sentinel of a channel
Sentinels(label) == {i \in DOMAIN queue : queue[i].label = label /\ queue[i].eof}

\* the EOF sentinel of a channel has been consumed
Consumed(label) == IF label = "stdout" THEN stdout_done ELSE stderr_done

\* the sentinels a reader has put: those queued and the one consumed
SentinelsPut(label) == Cardinality(Sentinels(label)) + (IF Consumed(label) THEN 1 ELSE 0)

\* the thread of a reader has ended
Ended(label) == reader[label] \in {"done", "raised"}

\* C27: each reader puts the EOF sentinel of its channel exactly once, after
\* every data chunk of the channel, and nothing afterwards: a reader never
\* puts a second sentinel, nothing of the channel is behind its sentinel on
\* the queue or arrives once the sentinel is consumed, and a reader whose
\* thread has ended has put its sentinel.
C27_SentinelExactlyOnce ==
    \A label \in Labels :
        /\ SentinelsPut(label) <= 1
        /\ \A i \in Sentinels(label) :
              \A j \in DOMAIN queue : j > i => queue[j].label # label
        /\ Consumed(label) => \A j \in DOMAIN queue : queue[j].label # label
        /\ Ended(label) => SentinelsPut(label) = 1

(***************************************************************************)
(* A run whose output names a file of the project directory: the agent     *)
(* writes a single-backtick token, and the directory holds that file.      *)
(***************************************************************************)
FileName == <<"a">>

FileScripts == {<<BT>> \o FileName \o <<BT, "b", "c", "d", "e", "f">>}

FileInit == StreamStart(FileScripts, {FileName}) /\ transport = "any" /\ DispatchIdle /\ MainIdle

FileSpec == FileInit /\ [][Next]_vars

\* C28: the finalisation performs the file-extraction step in block mode as
\* in the other modes: when the run is over and the transcript holds a
\* single-backtick token that names a file of the project directory, the
\* file has been delivered.
C28_FileDeliveredInEveryMode ==
    (pc = "done" /\ FileMatch(clean_output) \in files) => file_sent = <<FileMatch(clean_output)>>

\* what the delivery of the final result reads and writes
DeliveryInputs == <<stream_mode, message_id, proc, full_output, stdout_clean, block_buffer,
                    stderr_output, sentVars, clock, chat, parts, delivery, pushVars, limitVars,
                    files, file_sent>>

\* the step the thread takes after update_gemini_md
AfterAppends == IF stream_mode = "block" THEN "update" ELSE "final_edit"

\* C29: a failure to append to the log or to GEMINI.md during the
\* finalisation is logged and does not prevent the delivery: each append,
\* failed or not, leaves everything the delivery works on as it was and goes
\* on to the same next step, an append that wrote nothing it should have
\* written has logged its error, and a run that ends outside block mode has
\* made the final edit whatever the appends did.
C29_AppendFailureDoesNotBlockDelivery ==
    /\ [][/\ pc = "log"
             => /\ pc' = "md"
                /\ UNCHANGED DeliveryInputs
                /\ conversation_log' = conversation_log => "log" \in appends'.errors
          /\ pc = "md"
             => /\ pc' = AfterAppends
                /\ UNCHANGED DeliveryInputs
                /\ (/\ gemini_md' = gemini_md
                    /\ PyStrip(clean_output) # <<>>
                    /\ ~IsSubstr(EmptyResponse, clean_output)) => "md" \in appends'.errors]_vars
    /\ [](pc = "done" /\ stream_mode # "block"
            => \E i \in DOMAIN delivery : delivery[i].kind = "final_edit")

\* both appends have failed, and the final text is in the chat
C29_Witness ==
    /\ pc = "done"
    /\ stream_mode = "off"
    /\ appends.errors = {"log", "md"}
    /\ conversation_log = <<>> /\ gemini_md = <<>>
    /\ stdout_clean # <<>>
    /\ \E i \in DOMAIN delivery : delivery[i].kind = "final_edit" /\ delivery[i].ok
    /\ chat[message_id] = Segments(formatted_final, max_len)[1]

\* the thread is past the placeholder and before the delivery of the result
BeforeDelivery == pc \in {"get", "update", "merge", "log", "md"}

\* C30: in off mode no edit and no send is made between the placeholder and
\* the finalisation, whatever the agent writes and however long it runs:
\* the chat holds the placeholder alone, nothing has been pushed, and no
\* step of the consumer loop makes a transport call or changes the chat.
C30_OffModeLoopIsSilent ==
    /\ [](stream_mode = "off" /\ BeforeDelivery
            => /\ chat = <<format_for_telegram(Thinking)>>
               /\ \A i \in DOMAIN calls : calls[i].kind = "placeholder"
               /\ delivery = <<>>
               /\ update_count = 0 /\ last_sent_text = <<>>)
    /\ [][stream_mode = "off" /\ pc \in {"get", "update"}
            => /\ chat' = chat
               /\ calls' = <<>> \/ calls' = calls]_vars

\* the off mode leaves the loop after more than a block of output and an
\* update interval, with the placeholder still the only message
C30_Witness ==
    /\ stream_mode = "off"
    /\ pc = "merge"
    /\ Len(stdout_clean) >= STREAM_MAX_CHARS
    /\ clock >= STREAM_UPDATE_INTERVAL
    /\ chat = <<format_for_telegram(Thinking)>>

\* C31: the queue between the readers and the consumer loop is bounded: the
\* number of queued items never exceeds the capacity the queue was built
\* with, however fast the agent writes and however long the consumer is
\* busy with an edit or a sleep.
C31_QueueWithinCapacity == Len(queue) <= QUEUE_MAXSIZE

\* the placeholder was requested and the chat did not take it
PlaceholderFailed ==
    \E i \in DOMAIN calls : calls[i].kind = "placeholder" /\ ~calls[i].ok

\* C32: when the placeholder cannot be sent the run is abandoned before it
\* starts: the thread has ended, no agent process was spawned, no reader was
\* started and nothing is queued, nothing was appended to the log or to
\* GEMINI.md, and the chat has received no message of the run.
C32_NoPlaceholderNoRun ==
    /\ PlaceholderFailed => pc = "abandoned"
    /\ pc = "abandoned"
          => /\ message_id = None
             /\ proc = "none"
             /\ \A label \in Labels : reader[label] = "idle" /\ read_pos[label] = 0
             /\ queue = <<>>
             /\ appends.log = 0 /\ appends.md = 0
             /\ conversation_log = <<>> /\ gemini_md = <<>>
             /\ delivery = <<>>
             /\ chat = <<>>
             /\ file_sent = <<>>

\* the placeholder was refused and the run abandoned
C32_Witness == pc = "abandoned" /\ PlaceholderFailed

(***************************************************************************)
(* The polling of main.  Updates reach the Bot API server with increasing  *)
(* ids; getUpdates(offset) confirms the updates below the offset, which    *)
(* the server then forgets, and returns the others in the order of their   *)
(* ids.  What a handler does is the specification MainSpec; here a handler *)
(* returns or raises.                                                      *)
(***************************************************************************)
\* the id of the latest update that reached the server
LastArrived == IF updates = <<>> THEN last_update_id ELSE updates[Len(updates)]

\* the updates of a sequence of ids from an offset on
RECURSIVE FromOffset(_, _)
FromOffset(ids, offset) ==
    IF ids = <<>> THEN <<>>
    ELSE (IF Head(ids) >= offset THEN <<Head(ids)>> ELSE <<>>) \o FromOffset(Tail(ids), offset)

\* somebody sends a message or presses a button: an update with a higher id
UpdateArrives ==
    /\ \E id \in (LastArrived + 1)..Min(LastArrived + 2, MaxUpdates) :
          updates' = Append(updates, id)
    /\ UNCHANGED <<batch, handled, main_loop, contexts, awaiting_input, context_workflows,
                   effects, last_update_id, logged, update, streamVars, dispatchVars,
                   projectVars>>

\* one iteration of while True up to the for loop: getUpdates with offset
\* last_update_id + 1, which fails (logged, the loop polls again) or
\* returns the updates from the offset on
GetUpdates ==
    /\ main_loop = "polling"
    /\ batch = <<>>
    /\ LET offset == last_update_id + 1
       IN  \E ok \in BOOLEAN :
              IF ok
              THEN /\ updates' = FromOffset(updates, offset)
                   /\ batch' = updates'
                   /\ UNCHANGED logged
              ELSE /\ logged' = logged \cup {"network"}
                   /\ UNCHANGED <<updates, batch>>
    /\ UNCHANGED <<handled, main_loop, contexts, awaiting_input, context_workflows, effects,
                   last_update_id, update, streamVars, dispatchVars, projectVars>>

\* Variant of HandleUpdate: last_update_id is set when the handler has returned.
HandleUpdateThenAdvance ==
    /\ main_loop = "polling"
    /\ batch # <<>>
    /\ \E outcome \in {"returned", "raised"} :
          /\ handled' = Append(handled, [id |-> Head(batch), outcome |-> outcome])
          /\ last_update_id' = IF outcome = "returned" THEN Head(batch) ELSE last_update_id
          /\ batch' = IF outcome = "returned" THEN Tail(batch) ELSE <<>>
          /\ logged' = IF outcome = "returned" THEN logged ELSE logged \cup {"unhandled"}
    /\ UNCHANGED <<updates, main_loop, contexts, awaiting_input, context_workflows, effects,
                   update, streamVars, dispatchVars, projectVars>>

\* one iteration of "for update in updates.get('result', [])":
\* state["last_update_id"] = update_id, then the handler, which returns or
\* raises; an exception leaves the for loop for the except clauses of main,
\* which log it, and the loop polls again
HandleUpdate ==
    /\ main_loop = "polling"
    /\ batch # <<>>
    /\ last_update_id' = Head(batch)
    /\ \E outcome \in {"returned", "raised"} :
          /\ handled' = Append(handled, [id |-> Head(batch), outcome |-> outcome])
          /\ batch' = IF outcome = "returned" THEN Tail(batch) ELSE <<>>
          /\ logged' = IF outcome = "returned" THEN logged ELSE logged \cup {"unhandled"}
    /\ UNCHANGED <<updates, main_loop, contexts, awaiting_input, context_workflows, effects,
                   update, streamVars, dispatchVars, projectVars>>

PollInit == MainInit

PollNext ==
    \/ UpdateArrives
    \/ GetUpdates
    \/ HandleUpdate
    \/ KeyboardInterrupt

PollSpec == PollInit /\ [][PollNext]_vars

\* C33: each update is handled at most once: the ids of the handled updates
\* increase strictly, last_update_id is the id of the update whose handler
\* was entered last, set when the handler is entered, the updates the for
\* loop has still to handle are all beyond last_update_id, so that an update
\* whose handler raised is skipped and never handled again, and
\* last_update_id never decreases.
C33_UpdateHandledAtMostOnce ==
    /\ [](\A i, j \in DOMAIN handled : i < j => handled[i].id < handled[j].id)
    /\ [](handled # <<>> => last_update_id = handled[Len(handled)].id)
    /\ [](\A k \in DOMAIN batch : batch[k] > last_update_id)
    /\ [][/\ last_update_id' >= last_update_id
          /\ handled' # handled => last_update_id' = handled'[Len(handled')].id]_vars

\* the handler of an update raised, and a later update was handled after it
C33_Witness ==
    \E i \in DOMAIN handled : handled[i].outcome = "raised" /\ i < Len(handled)

\* the number of characters the block mode has removed from its buffer
Removed == Len(stdout_clean) - Len(block_buffer)

\* C34: in block mode, at every point of the run the blocks the flushes have
\* removed from the buffer followed by the buffer are the cleaned stdout so
\* far: the buffer is the end of stdout_clean, what was removed before it is
\* a whole number of blocks of STREAM_MAX_CHARS characters, a flush sends
\* the block it has just removed; and after every tick of the scheduler the
\* buffer holds fewer than STREAM_MAX_CHARS characters.
C34_BlockBufferAccounting ==
    stream_mode = "block"
       => /\ Removed >= 0
          /\ Removed % STREAM_MAX_CHARS = 0
          /\ Take(stdout_clean, Removed) \o block_buffer = stdout_clean
          /\ \A i \in Calls({"flush"}) :
                /\ Removed >= STREAM_MAX_CHARS
                /\ calls[i].text = SubSeq(stdout_clean, Removed - STREAM_MAX_CHARS + 1, Removed)
          /\ pc # "update" => Len(block_buffer) < STREAM_MAX_CHARS

\* a block has been removed, and more text has come into the buffer since
C34_Witness ==
    /\ stream_mode = "block"
    /\ pc = "get"
    /\ Removed >= STREAM_MAX_CHARS
    /\ block_buffer # <<>>

(***************************************************************************)
(* The stripping of control codes on its own: the finalisation of off mode *)
(* for an agent whose stdout is any text of at most MaxUnits + 1 units,    *)
(* lone escape characters and escape sequences among them.                 *)
(***************************************************************************)
StripUnits == {<<ESC>>, <<ESC, "S", "S">>, <<ESC, "[", "m">>, <<"a", "b", "c", "d", "e">>}

RECURSIVE StripTexts(_)
StripTexts(n) ==
    IF n = 0 THEN {<<>>}
    ELSE LET shorter == StripTexts(n - 1)
         IN  shorter \cup {t \o u : t \in shorter, u \in StripUnits}

StripInit == FinStart({"off"}, StripTexts(MaxUnits + 1), {<<>>}, {{}})

StripSpec == StripInit /\ [][FinNext]_vars

\* the finalisation has computed clean_output
Cleaned == pc \in {"log", "md", "final_edit", "final_plain", "final_send", "done"}

\* C35: the stripping of control codes is idempotent: for every text, the
\* removal of the escape sequences applied to the cleaned text gives the
\* cleaned text again.
C35_StrippingIsIdempotent == Cleaned => AnsiSub(clean_output) = clean_output

\* the step handles a text message of the authorized chat outside a context
\* workflow while input is awaited from the chat
AwaitedInputArrives ==
    /\ last_update_id' # last_update_id
    /\ update'.kind = "message"
    /\ update'.chat_id = AUTHORIZED_USER_ID
    /\ AUTHORIZED_USER_ID \notin context_workflows
    /\ awaiting_input[AUTHORIZED_USER_ID] # "none"

\* what the step has done for the authorized chat that was not done before
NewEffects == {e[2] : e \in {f \in effects' \ effects : f[1] = AUTHORIZED_USER_ID}}

\* C36: when input is awaited from a chat and the next text message of the
\* authorized chat arrives outside a context workflow, the message clears
\* awaiting_input: a command cancels the pending input (the chat is told
\* so) and goes to the command dispatcher, and any other text is consumed as
\* the awaited project name or execution parameters and is never given to
\* the agent as a prompt.
C36_AwaitedInputConsumed ==
    [][AwaitedInputArrives
         => /\ awaiting_input'[AUTHORIZED_USER_ID] = "none"
            /\ update'.text \in Commands
                  => <<AUTHORIZED_USER_ID, "notice">> \in effects'
            /\ update'.text \notin Commands
                  => /\ "agent_run" \notin NewEffects
                     /\ NewEffects \subseteq
                           IF awaiting_input[AUTHORIZED_USER_ID] = "new_project_name"
                           THEN {"create_project", "notice"}
                           ELSE {"execute_file", "notice"}]_vars

\* a text was consumed as the name of a new project, and no prompt went to
\* the agent
C36_Witness ==
    /\ update = [kind |-> "message", chat_id |-> AUTHORIZED_USER_ID, text |-> "text"]
    /\ awaiting_input[AUTHORIZED_USER_ID] = "none"
    /\ <<AUTHORIZED_USER_ID, "create_project">> \in effects
    /\ <<AUTHORIZED_USER_ID, "agent_run">> \notin effects

====
